---- MODULE Spec2Model ----
(***************************************************************************)
(* Model of src/src/main.cpp (class VulkanExample): the cascade            *)
(* calculator (updateCascades), the command recording                      *)
(* (buildCommandBuffers, drawCSM, drawScene, drawShadowCasters), the        *)
(* uniform uploads and the frame / UI handlers (prepare, render,            *)
(* viewChanged, OnUpdateUIOverlay).                                         *)
(*                                                                         *)
(* Floating point values are modelled as exact rationals <<num, den>>.     *)
(* std::pow(ratio, p) is evaluated exactly, which is possible when the     *)
(* far/near ratio has a rational SHADOW_MAP_CASCADE_COUNT-th root; the far *)
(* planes of the model are drawn from those.  Rounding of IEEE floats is   *)
(* not modelled.  4x4 matrices are modelled as terms over the values they  *)
(* are computed from.                                                      *)
(***************************************************************************)
EXTENDS Integers, Sequences, FiniteSets, TLC

\* ------------------------------------------------------------------------
\* Program constants
\* ------------------------------------------------------------------------
SHADOW_MAP_CASCADE_COUNT == 4
SHADOWMAP_DIM == 4096
FB_DIM == 1024
TERRAIN_LAYER_COUNT == 6

\* ------------------------------------------------------------------------
\* Bounds of the model
\* ------------------------------------------------------------------------
\* far plane = zNear * a^SHADOW_MAP_CASCADE_COUNT for a in 2..MaxRoot
MaxRoot == 3
\* camera poses (view matrices) 0..MaxView
MaxView == 1
\* the split lambda slider takes the values 0.1 + k * 0.9 / LambdaSteps
LambdaSteps == 1
\* number of swapchain images (one command buffer each)
NumImages == 2

\* ------------------------------------------------------------------------
\* Exact rational arithmetic standing for float arithmetic
\* ------------------------------------------------------------------------
RECURSIVE GCD(_, _)
GCD(a, b) == IF b = 0 THEN a ELSE GCD(b, a % b)

Abs(x) == IF x < 0 THEN -x ELSE x

\* what a float division by zero leaves. The only one the inputs drawn here
\* produce is 0/0; every operation below maps NaN to NaN, and every comparison
\* with NaN is false
NaN == <<0, 0>>

\* the rational n/d in lowest terms with a positive denominator
Rat(n, d) ==
    IF d = 0 THEN NaN
    ELSE LET g == GCD(Abs(n), Abs(d))
             s == IF d < 0 THEN -1 ELSE 1
         IN  <<(s * n) \div g, (s * d) \div g>>

Zero == <<0, 1>>
One == <<1, 1>>
FromInt(n) == <<n, 1>>

RAdd(x, y) == Rat(x[1] * y[2] + y[1] * x[2], x[2] * y[2])
RSub(x, y) == Rat(x[1] * y[2] - y[1] * x[2], x[2] * y[2])
RMul(x, y) == Rat(x[1] * y[1], x[2] * y[2])
RDiv(x, y) == Rat(x[1] * y[2], x[2] * y[1])
RNeg(x) == <<-x[1], x[2]>>
RLt(x, y) == x[1] * y[2] < y[1] * x[2]
RLe(x, y) == x[2] # 0 /\ y[2] # 0 /\ x[1] * y[2] <= y[1] * x[2]

RECURSIVE IPow(_, _)
IPow(a, n) == IF n = 0 THEN 1 ELSE a * IPow(a, n - 1)

\* the integer r >= from with r^n = m (the search stops at the first r^n >= m)
RECURSIVE IRootFrom(_, _, _)
IRootFrom(m, n, from) ==
    IF IPow(from, n) >= m THEN from ELSE IRootFrom(m, n, from + 1)

IRoot(m, n) == IF n = 1 THEN m ELSE IRootFrom(m, n, 1)

\* std::pow(x, p) for a positive rational x and a rational exponent p = k/n >= 0
\* whose result is rational
Pow(x, p) ==
    LET q == Rat(p[1], p[2])
        r == <<IRoot(x[1], q[2]), IRoot(x[2], q[2])>>
    IN  Rat(IPow(r[1], q[1]), IPow(r[2], q[1]))

\* ------------------------------------------------------------------------
\* State
\* ------------------------------------------------------------------------
VARIABLES
    prepared,                \* VulkanExampleBase::prepared
    paused,                  \* VulkanExampleBase::paused, as read by render()
    width,                   \* swapchain extent
    height,
    camera,                  \* [znear, zfar, view, updated]
    lightPos,
    debugDisplayReflection,
    debugDisplayRefraction,
    cascadeDebug,            \* [enabled, cascadeIndex]
    cascadeSplitLambda,
    cascades,                \* 1..SHADOW_MAP_CASCADE_COUNT -> [splitDepth, viewProjMatrix]
    cascadeSplits,           \* the local array of the last updateCascades call
    lastSplitDist,           \* the local accumulator as the last call left it
    uniformBuffers,          \* contents of the mapped uniform buffers
    commandBuffers,          \* one command buffer per swapchain image
    currentBuffer,           \* swapchain image acquired by prepareFrame
    pending,                 \* command buffers submitted and not yet executed
    recordedWhilePending,    \* a command buffer was recorded while pending
    submittedSinceRecord,    \* a frame was submitted since the last recording
    gpu,                     \* GPU calls made, the failed one, objects destroyed
    uboTerrain,              \* [layers]: the terrain layers as the sliders left them
    harness                  \* SpecCascades only: the previous updateCascades call

vars == <<prepared, paused, width, height, camera, lightPos,
          debugDisplayReflection, debugDisplayRefraction, cascadeDebug,
          cascadeSplitLambda, cascades, cascadeSplits, lastSplitDist,
          uniformBuffers, commandBuffers, currentBuffer, pending,
          recordedWhilePending, submittedSinceRecord, gpu, uboTerrain, harness>>

CascadeIndices == 0 .. (SHADOW_MAP_CASCADE_COUNT - 1)
Images == 0 .. (NumImages - 1)
Views == 0 .. MaxView

\* ------------------------------------------------------------------------
\* Camera and light
\* ------------------------------------------------------------------------
zNear == <<1, 2>>

\* zFar = 48.0f in the source; 48 / 0.5 has no rational fourth root, and the
\* model takes the nearest far plane that has one: 40.5 = zNear * 3^4
zFar == RMul(zNear, FromInt(IPow(3, SHADOW_MAP_CASCADE_COUNT)))

\* far planes whose ratio to zNear has an exact SHADOW_MAP_CASCADE_COUNT-th root
FarClips ==
    { RMul(zNear, FromInt(IPow(a, SHADOW_MAP_CASCADE_COUNT))) : a \in 2 .. MaxRoot }

\* swapchain extents the window can have
SwapchainExtents == { <<1280, 720>> }

\* uboTerrain.layers as the constructor sets it: <<x, y>> of each layer
ConstructorLayers ==
    << <<Rat(25, 2), FromInt(45)>>, <<FromInt(50), FromInt(30)>>,
       <<Rat(125, 2), FromInt(35)>>, <<Rat(175, 2), FromInt(25)>>,
       <<Rat(235, 2), FromInt(45)>>, <<FromInt(165), FromInt(50)>> >>

\* lightPos as the constructor leaves it: (-20, -15, -15, 0) * 20
ConstructorLightPos == <<-400, -300, -300, 0>>

\* lightPos as updateUniformBuffers leaves it
UniformLightPos == <<20, -10, 20, 0>>

\* glm::normalize(-v): the direction of -v, as its smallest integer representative
NormalizeNeg(v) ==
    LET g == GCD(GCD(Abs(v[1]), Abs(v[2])), GCD(Abs(v[3]), Abs(v[4])))
    IN  [k \in 1 .. 4 |-> (0 - v[k]) \div g]

\* values of the split lambda slider, in [0.1, 1.0]
LambdaValues ==
    { RAdd(<<1, 10>>, Rat(9 * k, 10 * LambdaSteps)) : k \in 0 .. LambdaSteps }

\* cascadeSplitLambda = 0.95f
InitialLambda == <<19, 20>>

\* ------------------------------------------------------------------------
\* updateCascades
\* ------------------------------------------------------------------------
\* first loop: the normalized split fraction of cascade i (0-based)
SplitFractionFromZero(cam, lambda, i) ==
    LET clipRange == RSub(cam.zfar, cam.znear)
        ratio == RDiv(cam.zfar, cam.znear)
        p == <<i, SHADOW_MAP_CASCADE_COUNT>>
        log == RMul(cam.znear, Pow(ratio, p))
        uniform == RAdd(cam.znear, RMul(clipRange, Rat(p[1], p[2])))
        d == RAdd(RMul(lambda, RSub(log, uniform)), uniform)
    IN  RDiv(RSub(d, cam.znear), clipRange)

SplitFraction(cam, lambda, i) ==
    LET nearClip == cam.znear
        farClip == cam.zfar
        clipRange == RSub(farClip, nearClip)
        minZ == nearClip
        maxZ == RAdd(nearClip, clipRange)
        range == RSub(maxZ, minZ)
        ratio == RDiv(maxZ, minZ)
        p == <<i + 1, SHADOW_MAP_CASCADE_COUNT>>
        log == RMul(minZ, Pow(ratio, p))
        uniform == RAdd(minZ, RMul(range, Rat(p[1], p[2])))
        d == RAdd(RMul(lambda, RSub(log, uniform)), uniform)
    IN  RDiv(RSub(d, nearClip), clipRange)

ComputeCascadeSplits(cam, lambda) ==
    [k \in 1 .. SHADOW_MAP_CASCADE_COUNT |-> SplitFraction(cam, lambda, k - 1)]

\* lightOrthoMatrix * lightViewMatrix of one slice: a term over the inverse
\* camera matrix, the slice carved out of the frustum and the light direction
LightViewProj(cam, light, lastSplit, splitDist) ==
    [ invCam |-> <<cam.znear, cam.zfar, cam.view>>,
      sliceNear |-> lastSplit,
      sliceFar |-> splitDist,
      lightDir |-> NormalizeNeg(light) ]

\* the split depth stored for a slice ending at splitDist
SplitDepthBroken(cam, splitDist) ==
    RAdd(cam.znear, RMul(splitDist, RSub(cam.zfar, cam.znear)))

SplitDepth(cam, splitDist) ==
    RMul(RAdd(cam.znear, RMul(splitDist, RSub(cam.zfar, cam.znear))), FromInt(-1))

\* value of lastSplitDist at the start of a call
LastSplitDistStatic == lastSplitDist

LastSplitDistInit == Zero

\* value of lastSplitDist after the iteration of cascade i
LastSplitDistStuck(splits, i, last) == last

LastSplitDistNext(splits, i, last) == splits[i + 1]

\* second loop, iterations i .. SHADOW_MAP_CASCADE_COUNT-1
RECURSIVE CascadeLoop(_, _, _, _, _, _)
CascadeLoop(cam, light, splits, i, last, acc) ==
    IF i >= SHADOW_MAP_CASCADE_COUNT
    THEN [cascades |-> acc, lastSplitDist |-> last]
    ELSE LET splitDist == splits[i + 1]
             c == [ splitDepth |-> SplitDepth(cam, splitDist),
                    viewProjMatrix |-> LightViewProj(cam, light, last, splitDist) ]
         IN  CascadeLoop(cam, light, splits, i + 1,
                         LastSplitDistNext(splits, i, last),
                         [acc EXCEPT ![i + 1] = c])

\* the locals and the cascades array at the end of a call that starts with
\* the cascades array old
RunUpdateCascades(cam, lambda, light, old) ==
    LET splits == ComputeCascadeSplits(cam, lambda)
        r == CascadeLoop(cam, light, splits, 0, LastSplitDistInit, old)
    IN  [cascades |-> r.cascades, cascadeSplits |-> splits,
         lastSplitDist |-> r.lastSplitDist]

\* the inputs updateCascades can meet: clip planes, camera pose, lambda, light
\* clip planes with near >= far: both at zNear, or the two swapped
DegenerateClips == { <<zNear, zNear>> } \cup { <<far, zNear>> : far \in FarClips }

CascadeInputs ==
    { <<clip, v, lambda, light>> :
        clip \in { <<zNear, far>> : far \in FarClips } \cup DegenerateClips,
        v \in Views,
        lambda \in LambdaValues \cup {InitialLambda},
        light \in {ConstructorLightPos, UniformLightPos} }

\* every element of the array is overwritten, so the result does not depend on
\* the array the call starts with: the results are tabulated once per input
UpdateCascadesTable ==
    [ in \in CascadeInputs |->
        RunUpdateCascades([znear |-> in[1][1], zfar |-> in[1][2], view |-> in[2]],
                          in[3], in[4],
                          [k \in 1 .. SHADOW_MAP_CASCADE_COUNT |-> <<>>]) ]

\* the whole function, applied to the application state s
updateCascades(s) ==
    LET r == UpdateCascadesTable[<<<<s.camera.znear, s.camera.zfar>>, s.camera.view,
                                   s.cascadeSplitLambda, s.lightPos>>]
    IN  [s EXCEPT !.cascades = r.cascades,
                  !.cascadeSplits = r.cascadeSplits,
                  !.lastSplitDist = r.lastSplitDist]

\* ------------------------------------------------------------------------
\* Shadow resources of prepareCSM
\* ------------------------------------------------------------------------
\* the image view of cascade i: one array layer of the layered depth image
CascadeView(i) ==
    [ image |-> "depth.image", baseArrayLayer |-> i, layerCount |-> 1 ]

\* the framebuffer of cascade i
CascadeFrameBuffer(i) ==
    [ renderPass |-> "depthPass.renderPass",
      attachments |-> << CascadeView(i) >>,
      width |-> SHADOWMAP_DIM, height |-> SHADOWMAP_DIM, layers |-> 1 ]

\* ------------------------------------------------------------------------
\* Command recording
\* ------------------------------------------------------------------------
\* one recorded command: what it is, the object it names (framebuffer,
\* pipeline, descriptor set, geometry), the pipeline layout and its numbers
Cmd(op, obj, layout, args) == [op |-> op, obj |-> obj, layout |-> layout, args |-> args]

BeginRenderPass(fb, args) == Cmd("BeginRenderPass", fb, "", args)
EndRenderPass == Cmd("EndRenderPass", "", "", <<>>)
SetViewport(w, h) == Cmd("SetViewport", "", "", <<w, h>>)
SetScissor(w, h) == Cmd("SetScissor", "", "", <<w, h>>)
BindPipeline(pipeline) == Cmd("BindPipeline", pipeline, "", <<>>)
BindDescriptorSets(layout, set) == Cmd("BindDescriptorSets", set, layout, <<>>)
PushConstants(layout, block) == Cmd("PushConstants", "", layout, block)
Draw(geometry, args) == Cmd("Draw", geometry, "", args)

\* drawScene's PushConst block as <<scale.x, scale.y, scale.z, clipPlane.xyzw, shadows>>
ScenePushConstReflectAsRefract(drawType) ==
    LET clipPlane == IF drawType \in {"sceneDrawTypeRefract", "sceneDrawTypeReflect"}
                     THEN <<0, 1, 0, 0>> ELSE <<0, 0, 0, 0>>
        shadows == IF drawType \in {"sceneDrawTypeRefract", "sceneDrawTypeReflect"}
                   THEN 0 ELSE 1
    IN  <<1, 1, 1>> \o clipPlane \o <<shadows>>

ScenePushConst(drawType) ==
    LET scale == IF drawType = "sceneDrawTypeReflect" THEN <<1, -1, 1>> ELSE <<1, 1, 1>>
        clipPlane == IF drawType \in {"sceneDrawTypeRefract", "sceneDrawTypeReflect"}
                     THEN <<0, 1, 0, 0>> ELSE <<0, 0, 0, 0>>
        shadows == IF drawType \in {"sceneDrawTypeRefract", "sceneDrawTypeReflect"}
                   THEN 0 ELSE 1
    IN  scale \o clipPlane \o <<shadows>>

drawScene(drawType) ==
    << BindPipeline("pipelines.sky"),
       BindDescriptorSets("pipelineLayouts.sky", "descriptorSets.skysphere"),
       PushConstants("pipelineLayouts.sky", ScenePushConst(drawType)),
       Draw("models.skysphere", <<>>),
       BindPipeline("pipelines.terrain"),
       BindDescriptorSets("pipelineLayouts.terrain", "descriptorSets.terrain"),
       PushConstants("pipelineLayouts.terrain", ScenePushConst(drawType)),
       Draw("heightMap", <<>>) >>

\* CascadePushConstBlock as <<position.xyzw, cascadeIndex>>
drawShadowCasters(cascadeIndex) ==
    << BindPipeline("pipelines.depthpass"),
       BindDescriptorSets("depthPass.pipelineLayout", "depthPass.descriptorSet"),
       PushConstants("depthPass.pipelineLayout", <<0, 0, 0, 0, cascadeIndex>>),
       Draw("heightMap", <<>>) >>

\* one iteration of drawCSM's loop
CascadePassUnclosed(j) ==
    << BeginRenderPass("cascades.frameBuffer", <<j, SHADOWMAP_DIM, SHADOWMAP_DIM>>) >>
    \o drawShadowCasters(j)

CascadePassDefaultIndex(j) ==
    << BeginRenderPass("cascades.frameBuffer", <<j, SHADOWMAP_DIM, SHADOWMAP_DIM>>) >>
    \o drawShadowCasters(0)
    \o << EndRenderPass >>

CascadePass(j) ==
    << BeginRenderPass("cascades.frameBuffer", <<j, SHADOWMAP_DIM, SHADOWMAP_DIM>>) >>
    \o drawShadowCasters(j)
    \o << EndRenderPass >>

\* drawCSM's loop, iterations j .. SHADOW_MAP_CASCADE_COUNT-1
RECURSIVE CascadePassesDescending(_)
CascadePassesDescending(j) ==
    IF j >= SHADOW_MAP_CASCADE_COUNT THEN <<>>
    ELSE CascadePassesDescending(j + 1) \o CascadePass(j)

RECURSIVE CascadePasses(_)
CascadePasses(j) ==
    IF j >= SHADOW_MAP_CASCADE_COUNT THEN <<>>
    ELSE CascadePass(j) \o CascadePasses(j + 1)

drawCSMFirstLayerTwice ==
    << SetViewport(SHADOWMAP_DIM, SHADOWMAP_DIM),
       SetScissor(SHADOWMAP_DIM, SHADOWMAP_DIM) >>
    \o CascadePass(0)
    \o CascadePasses(0)

drawCSM ==
    << SetViewport(SHADOWMAP_DIM, SHADOWMAP_DIM),
       SetScissor(SHADOWMAP_DIM, SHADOWMAP_DIM) >>
    \o CascadePasses(0)

OffscreenPassKeepsViewport(fb, drawType) ==
    << BeginRenderPass(fb, <<FB_DIM, FB_DIM>>) >>
    \o drawScene(drawType)
    \o << EndRenderPass >>

\* the refraction and reflection blocks of buildCommandBuffers
OffscreenPass(fb, drawType) ==
    << BeginRenderPass(fb, <<FB_DIM, FB_DIM>>),
       SetViewport(FB_DIM, FB_DIM),
       SetScissor(FB_DIM, FB_DIM) >>
    \o drawScene(drawType)
    \o << EndRenderPass >>

\* the 6-vertex full-screen quad of a debug display
DebugQuadTwice == << Draw("quad", <<6, 1, 0, 0>>), Draw("quad", <<6, 1, 0, 0>>) >>

DebugQuad == << Draw("quad", <<6, 1, 0, 0>>) >>

\* the optional draws of the main pass, for the toggle values t
DebugDraws(t) ==
    (IF t.debugDisplayReflection
     THEN << BindDescriptorSets("pipelineLayouts.textured", "descriptorSets.debugquad"),
             BindPipeline("pipelines.debug"),
             PushConstants("pipelineLayouts.debug", <<0>>) >> \o DebugQuad
     ELSE <<>>)
    \o
    (IF t.debugDisplayRefraction
     THEN << BindDescriptorSets("pipelineLayouts.textured", "descriptorSets.debugquad"),
             BindPipeline("pipelines.debug"),
             PushConstants("pipelineLayouts.debug", <<1>>) >> \o DebugQuad
     ELSE <<>>)
    \o
    (IF t.cascadeDebug.enabled
     THEN << BindDescriptorSets("cascadeDebug.pipelineLayout", "cascadeDebug.descriptorSet"),
             BindPipeline("cascadeDebug.pipeline"),
             PushConstants("cascadeDebug.pipelineLayout",
                           <<0, 0, 0, 0, t.cascadeDebug.cascadeIndex>>) >> \o DebugQuad
     ELSE <<>>)

\* the main (swapchain) block of buildCommandBuffers for image i
MainPassUIBeforeDebug(i, t) ==
    << BeginRenderPass("frameBuffers", <<i, t.width, t.height>>),
       SetViewport(t.width, t.height),
       SetScissor(t.width, t.height) >>
    \o drawScene("sceneDrawTypeDisplay")
    \o << BindDescriptorSets("pipelineLayouts.textured", "descriptorSets.waterplane"),
          BindPipeline("pipelines.mirror"),
          Draw("models.plane", <<>>) >>
    \o << Draw("UI", <<>>) >>
    \o DebugDraws(t)
    \o << EndRenderPass >>

MainPass(i, t) ==
    << BeginRenderPass("frameBuffers", <<i, t.width, t.height>>),
       SetViewport(t.width, t.height),
       SetScissor(t.width, t.height) >>
    \o drawScene("sceneDrawTypeDisplay")
    \o << BindDescriptorSets("pipelineLayouts.textured", "descriptorSets.waterplane"),
          BindPipeline("pipelines.mirror"),
          Draw("models.plane", <<>>) >>
    \o DebugDraws(t)
    \o << Draw("UI", <<>>) >>
    \o << EndRenderPass >>

\* the body of buildCommandBuffers' loop: the commands recorded for image i
RecordCommandBufferSwapped(i, t) ==
    << Cmd("Begin", "", "", <<>>) >>
    \o drawCSM
    \o OffscreenPass("offscreenPass.reflection.frameBuffer", "sceneDrawTypeReflect")
    \o OffscreenPass("offscreenPass.refraction.frameBuffer", "sceneDrawTypeRefract")
    \o MainPass(i, t)
    \o << Cmd("End", "", "", <<>>) >>

RecordCommandBuffer(i, t) ==
    << Cmd("Begin", "", "", <<>>) >>
    \o drawCSM
    \o OffscreenPass("offscreenPass.refraction.frameBuffer", "sceneDrawTypeRefract")
    \o OffscreenPass("offscreenPass.reflection.frameBuffer", "sceneDrawTypeReflect")
    \o MainPass(i, t)
    \o << Cmd("End", "", "", <<>>) >>

\* the values buildCommandBuffers reads from the application state s
Toggles(s) ==
    [ debugDisplayReflection |-> s.debugDisplayReflection,
      debugDisplayRefraction |-> s.debugDisplayRefraction,
      cascadeDebug |-> s.cascadeDebug,
      width |-> s.width,
      height |-> s.height ]

\* every command buffer is recorded anew.  A recorded command buffer is held
\* as the values it was recorded from; Commands(i) below is its content
buildCommandBuffers(s) ==
    [s EXCEPT !.commandBuffers = [i \in Images |-> [recorded |-> TRUE, from |-> Toggles(s)]],
              !.recordedWhilePending = @ \/ (s.pending # {}),
              !.submittedSinceRecord = FALSE]

\* ------------------------------------------------------------------------
\* Uniform buffers
\* ------------------------------------------------------------------------
\* camera.matrices.perspective and camera.matrices.view as terms
Perspective(cam) == <<cam.znear, cam.zfar>>
View(cam) == cam.view

\* sizeof of the types the uniform blocks are made of
SizeOf(type) ==
    CASE type = "float" -> 4
      [] type = "vec3"  -> 12
      [] type = "vec4"  -> 16
      [] type = "mat4"  -> 64

\* n fields of one type in a row
Array(type, n) == [k \in 1 .. n |-> type]

RECURSIVE SizeOfStruct(_)
SizeOfStruct(fields) ==
    IF fields = <<>> THEN 0
    ELSE SizeOf(Head(fields)) + SizeOfStruct(Tail(fields))

\* the uniform block structs, field by field
UBO == << "mat4", "mat4", "vec4" >>
UBOTerrain == << "mat4", "mat4", "vec4" >> \o Array("vec4", TERRAIN_LAYER_COUNT)
UBOCSM ==
    Array("float", SHADOW_MAP_CASCADE_COUNT) \o Array("mat4", SHADOW_MAP_CASCADE_COUNT)
        \o << "mat4", "vec3" >>
UBOWaterPlane == << "mat4", "mat4", "vec4", "vec4", "float" >>
UniformBlock == Array("mat4", SHADOW_MAP_CASCADE_COUNT)

\* the size each buffer is created with by prepareUniformBuffers
BufferSize ==
    [ vsShared    |-> SizeOfStruct(UBO),
      vsMirror    |-> SizeOfStruct(UBOWaterPlane),
      vsOffScreen |-> SizeOfStruct(UBO),
      vsDebugQuad |-> SizeOfStruct(UBO),
      terrain     |-> SizeOfStruct(UBO),
      sky         |-> SizeOfStruct(UBO),
      depthPass   |-> SizeOfStruct(UniformBlock),
      CSM         |-> SizeOfStruct(UBOCSM) ]

\* the number of bytes the upload into each buffer copies
UploadSize ==
    [ vsShared    |-> SizeOfStruct(UBO),
      vsMirror    |-> SizeOfStruct(UBOWaterPlane),
      vsOffScreen |-> SizeOfStruct(UBO),
      vsDebugQuad |-> SizeOfStruct(UBO),
      terrain     |-> SizeOfStruct(UBOTerrain),
      sky         |-> SizeOfStruct(UBO),
      depthPass   |-> SizeOfStruct(UniformBlock),
      CSM         |-> SizeOfStruct(UBOCSM) ]

\* a buffer that has not been created and mapped yet
NoBuffer == [mapped |-> FALSE]

Upload(data) == [mapped |-> TRUE, data |-> data]

\* the blocks the uploads copy: uboTerrain, uboCSM with the depth pass
\* matrices, uboShared, uboWaterPlane, the debug quad's block
TerrainBlock(cam, light, layers) ==
    [ projection |-> Perspective(cam), model |-> View(cam), lightDir |-> NormalizeNeg(light),
      layers |-> layers ]

DepthPassBlock(casc) ==
    [ cascadeViewProjMat |->
          [k \in 1 .. SHADOW_MAP_CASCADE_COUNT |-> casc[k].viewProjMatrix] ]

CSMBlock(cam, light, casc) ==
    [ cascadeSplits |-> [k \in 1 .. SHADOW_MAP_CASCADE_COUNT |-> casc[k].splitDepth],
      cascadeViewProjMat |->
          [k \in 1 .. SHADOW_MAP_CASCADE_COUNT |-> casc[k].viewProjMatrix],
      inverseViewMat |-> View(cam),
      lightDir |-> NormalizeNeg(light) ]

SharedBlock(cam) == [ projection |-> Perspective(cam), model |-> View(cam) ]

WaterPlaneBlock(cam) ==
    [ projection |-> Perspective(cam), model |-> View(cam), cameraPos |-> View(cam),
      lightDir |-> NormalizeNeg(UniformLightPos) ]

DebugQuadBlock(w, h) == [ projection |-> <<h, w>>, model |-> -1 ]

OffscreenBlock(cam) ==
    [ projection |-> Perspective(cam), model |-> <<View(cam), 1, -1, 1>> ]

updateUniformBufferTerrain(s) ==
    [s EXCEPT !.uniformBuffers.terrain = Upload(TerrainBlock(s.camera, s.lightPos, s.uboTerrain.layers))]

updateUniformBufferCSMDepthPassOnly(s) ==
    [s EXCEPT !.uniformBuffers.depthPass = Upload(DepthPassBlock(s.cascades)),
              !.uniformBuffers.CSM = IF @.mapped THEN @
                                     ELSE Upload(CSMBlock(s.camera, s.lightPos, s.cascades))]

updateUniformBufferCSM(s) ==
    [s EXCEPT !.uniformBuffers.depthPass = Upload(DepthPassBlock(s.cascades)),
              !.uniformBuffers.CSM = Upload(CSMBlock(s.camera, s.lightPos, s.cascades))]

\* updateUniformBuffers up to the debug quad upload
UploadSharedBuffers(s) ==
    [s EXCEPT !.lightPos = UniformLightPos,
              !.uniformBuffers.vsShared = Upload(SharedBlock(s.camera)),
              !.uniformBuffers.vsMirror = Upload(WaterPlaneBlock(s.camera)),
              !.uniformBuffers.vsDebugQuad = Upload(DebugQuadBlock(s.width, s.height))]

UploadSky(s) ==
    [s EXCEPT !.uniformBuffers.sky = Upload(SharedBlock(s.camera))]

updateUniformBuffers(s) ==
    UploadSky(updateUniformBufferCSM(updateUniformBufferTerrain(UploadSharedBuffers(s))))

updateUniformBufferOffscreen(s) ==
    [s EXCEPT !.uniformBuffers.vsOffScreen = Upload(OffscreenBlock(s.camera))]

prepareUniformBuffers(s) ==
    updateUniformBufferOffscreen(updateUniformBuffers(s))

\* ------------------------------------------------------------------------
\* GPU calls of prepare() and the objects they create
\* ------------------------------------------------------------------------
\* one call whose result can report failure: the function, the object it
\* creates or acts on, how the code treats the result, and the source line
Call(fn, obj, check, line) == [fn |-> fn, obj |-> obj, check |-> check, line |-> line]

loadAssets ==
    << Call("vkCreateSampler", "textures.heightMap.sampler", "VK_CHECK_RESULT", 918),
       Call("vkCreateSampler", "textures.terrainArray.sampler", "VK_CHECK_RESULT", 939) >>

createFrameBufferUncheckedView(target) ==
    << Call("vkCreateImage", target \o ".image", "VK_CHECK_RESULT", 293),
       Call("vkAllocateMemory", target \o ".mem", "VK_CHECK_RESULT", 300),
       Call("vkBindImageMemory", target \o ".mem", "VK_CHECK_RESULT", 301),
       Call("vkCreateImageView", target \o ".view", "ignored", 313) >>

createFrameBuffer(target) ==
    << Call("vkCreateImage", target \o ".image", "VK_CHECK_RESULT", 293),
       Call("vkAllocateMemory", target \o ".mem", "VK_CHECK_RESULT", 300),
       Call("vkBindImageMemory", target \o ".mem", "VK_CHECK_RESULT", 301),
       Call("vkCreateImageView", target \o ".view", "VK_CHECK_RESULT", 313) >>

prepareOffscreen ==
    << Call("getSupportedDepthFormat", "fbDepthFormat", "assert", 327),
       Call("vkCreateRenderPass", "offscreenPass.renderPass", "VK_CHECK_RESULT", 388),
       Call("vkCreateSampler", "offscreenPass.sampler", "VK_CHECK_RESULT", 404) >>
    \o createFrameBuffer("offscreenPass.refraction")
    \o createFrameBuffer("offscreenPass.reflection")
    \o << Call("vkCreateImage", "offscreenPass.depth.image", "VK_CHECK_RESULT", 423),
          Call("vkAllocateMemory", "offscreenPass.depth.mem", "VK_CHECK_RESULT", 430),
          Call("vkBindImageMemory", "offscreenPass.depth.mem", "VK_CHECK_RESULT", 431),
          Call("vkCreateImageView", "offscreenPass.depth.view", "VK_CHECK_RESULT", 444),
          Call("vkCreateFramebuffer", "offscreenPass.refraction.frameBuffer",
               "VK_CHECK_RESULT", 459),
          Call("vkCreateFramebuffer", "offscreenPass.reflection.frameBuffer",
               "VK_CHECK_RESULT", 462) >>

\* cascades[i] as a name
CascadeName(i) == "cascades[" \o ToString(i) \o "]"

\* the body of the loop over the cascades in prepareCSM
CascadeResources(i) ==
    << Call("vkCreateImageView", CascadeName(i) \o ".view", "VK_CHECK_RESULT", 620),
       Call("vkCreateFramebuffer", CascadeName(i) \o ".frameBuffer", "VK_CHECK_RESULT", 629) >>

RECURSIVE CascadeResourcesFrom(_)
CascadeResourcesFrom(i) ==
    IF i >= SHADOW_MAP_CASCADE_COUNT THEN <<>>
    ELSE CascadeResources(i) \o CascadeResourcesFrom(i + 1)

prepareCSM ==
    << Call("getSupportedDepthFormat", "depthFormat", "ignored", 516),
       Call("vkCreateRenderPass", "depthPass.renderPass", "VK_CHECK_RESULT", 568),
       Call("vkCreateImage", "depth.image", "VK_CHECK_RESULT", 585),
       Call("vkAllocateMemory", "depth.mem", "VK_CHECK_RESULT", 591),
       Call("vkBindImageMemory", "depth.mem", "VK_CHECK_RESULT", 592),
       Call("vkCreateImageView", "depth.view", "VK_CHECK_RESULT", 604) >>
    \o CascadeResourcesFrom(0)
    \o << Call("vkCreateSampler", "depth.sampler", "VK_CHECK_RESULT", 645) >>

\* the buffers in the order prepareUniformBuffers creates and maps them
BufferNames ==
    << "uniformBuffers.vsShared", "uniformBuffers.vsMirror", "uniformBuffers.vsOffScreen",
       "uniformBuffers.vsDebugQuad", "uniformBuffers.terrain", "uniformBuffers.sky",
       "depthPass.uniformBuffer", "uniformBuffers.CSM" >>

\* the calls of prepareUniformBuffers before its two uploads
CreateAndMapBuffers ==
    [k \in 1 .. Len(BufferNames) |->
        Call("createBuffer", BufferNames[k], "VK_CHECK_RESULT", 1220 + k)]
    \o [k \in 1 .. Len(BufferNames) |->
        Call("map", BufferNames[k], "VK_CHECK_RESULT", 1230 + k)]

setupDescriptorPool ==
    << Call("vkCreateDescriptorPool", "descriptorPool", "VK_CHECK_RESULT", 964) >>

\* the calls of prepare() up to the uploads of prepareUniformBuffers, and all
\* of them, in the order prepare() makes them
CallsBeforeUpload == loadAssets \o prepareOffscreen \o prepareCSM \o CreateAndMapBuffers
SetupCalls == CallsBeforeUpload \o setupDescriptorPool

\* the queue submit of draw()
SubmitCall == Call("vkQueueSubmit", "queue", "VK_CHECK_RESULT", 1324)

\* VK_CHECK_RESULT(f): the process aborts unless f succeeded
VK_CHECK_RESULT(ok) == ~ok

\* assert(e): aborts unless e holds, and is compiled out under NDEBUG
assert(e, NDEBUG) == (~e) /\ ~NDEBUG

\* whether the process aborts when call c reports failure
Aborts(c, NDEBUG) ==
    CASE c.check = "VK_CHECK_RESULT" -> VK_CHECK_RESULT(FALSE)
      [] c.check = "assert"          -> assert(FALSE, NDEBUG)
      [] c.check = "ignored"         -> FALSE

\* nothing called yet. log: the calls of SetupCalls made so far, by index;
\* failed: the call that reported failure, or <<>>; destroyed: the objects the
\* destructor has destroyed, in order
NoCalls(NDEBUG) ==
    [ NDEBUG |-> NDEBUG, log |-> <<>>, failed |-> <<>>, aborted |-> FALSE,
      destructed |-> FALSE, destroyed |-> <<>> ]

\* the process is alive
Running(g) == (~g.aborted) /\ ~g.destructed

\* the GPU calls of prepare() when call number fail reports failure (0: none
\* does): they run in order up to the first one that aborts the process
RunSetupCalls(g, fail) ==
    LET stop == fail # 0 /\ Aborts(SetupCalls[fail], g.NDEBUG)
        last == IF stop THEN fail ELSE Len(SetupCalls)
    IN  [g EXCEPT !.log = [k \in 1 .. last |-> k],
                  !.failed = IF fail = 0 THEN <<>> ELSE << SetupCalls[fail] >>,
                  !.aborted = stop]

\* DepthImage::destroy and Cascade::destroy: the objects they destroy
DepthImageDestroy == << "depth.view", "depth.image", "depth.mem", "depth.sampler" >>
CascadeDestroy(i) == << CascadeName(i) \o ".view", CascadeName(i) \o ".frameBuffer" >>

\* the objects ~VulkanExample destroys, in order
DestructorDestroys ==
    << "offscreenPass.refraction.view", "offscreenPass.refraction.image",
       "offscreenPass.refraction.mem",
       "offscreenPass.depth.view", "offscreenPass.depth.image", "offscreenPass.depth.mem",
       "offscreenPass.renderPass", "offscreenPass.sampler",
       "uniformBuffers.vsShared", "uniformBuffers.vsMirror",
       "uniformBuffers.vsOffScreen", "uniformBuffers.vsDebugQuad" >>

destructor(s) ==
    [s EXCEPT !.gpu.destroyed = @ \o DestructorDestroys, !.gpu.destructed = TRUE]

\* ------------------------------------------------------------------------
\* Frame submission
\* ------------------------------------------------------------------------
\* VulkanExampleBase::prepareFrame: acquires swapchain image img
prepareFrame(s, img) == [s EXCEPT !.currentBuffer = img]

\* vkQueueSubmit of commandBuffers[currentBuffer]
QueueSubmit(s) ==
    [s EXCEPT !.pending = @ \cup {s.currentBuffer},
              !.submittedSinceRecord = TRUE]

\* VulkanExampleBase::submitFrame: presents and blocks until the queue is idle
submitFrame(s) == [s EXCEPT !.pending = {}]

drawWithoutSubmitFrame(s, img) ==
    QueueSubmit(prepareFrame(s, img))

draw(s, img) ==
    submitFrame(QueueSubmit(prepareFrame(s, img)))

\* ------------------------------------------------------------------------
\* Handlers, as functions of the application state
\* ------------------------------------------------------------------------
\* the application state as one record
Cur ==
    [ prepared |-> prepared, paused |-> paused, width |-> width, height |-> height,
      camera |-> camera, lightPos |-> lightPos,
      debugDisplayReflection |-> debugDisplayReflection,
      debugDisplayRefraction |-> debugDisplayRefraction,
      cascadeDebug |-> cascadeDebug, cascadeSplitLambda |-> cascadeSplitLambda,
      cascades |-> cascades, cascadeSplits |-> cascadeSplits,
      lastSplitDist |-> lastSplitDist, uniformBuffers |-> uniformBuffers,
      commandBuffers |-> commandBuffers, currentBuffer |-> currentBuffer,
      pending |-> pending, recordedWhilePending |-> recordedWhilePending,
      submittedSinceRecord |-> submittedSinceRecord, gpu |-> gpu,
      uboTerrain |-> uboTerrain ]

Commit(s) ==
    /\ prepared' = s.prepared
    /\ paused' = s.paused
    /\ width' = s.width
    /\ height' = s.height
    /\ camera' = s.camera
    /\ lightPos' = s.lightPos
    /\ debugDisplayReflection' = s.debugDisplayReflection
    /\ debugDisplayRefraction' = s.debugDisplayRefraction
    /\ cascadeDebug' = s.cascadeDebug
    /\ cascadeSplitLambda' = s.cascadeSplitLambda
    /\ cascades' = s.cascades
    /\ cascadeSplits' = s.cascadeSplits
    /\ lastSplitDist' = s.lastSplitDist
    /\ uniformBuffers' = s.uniformBuffers
    /\ commandBuffers' = s.commandBuffers
    /\ currentBuffer' = s.currentBuffer
    /\ pending' = s.pending
    /\ recordedWhilePending' = s.recordedWhilePending
    /\ submittedSinceRecord' = s.submittedSinceRecord
    /\ gpu' = s.gpu
    /\ uboTerrain' = s.uboTerrain

\* prepare() when GPU call number fail of SetupCalls reports failure (0: none)
prepareMayFail(s, fail) ==
    LET g == RunSetupCalls(s.gpu, fail)
    IN  IF ~g.aborted
        THEN [buildCommandBuffers(prepareUniformBuffers(s)) EXCEPT
                  !.prepared = TRUE, !.gpu = g]
        ELSE IF fail > Len(CallsBeforeUpload)
        THEN [prepareUniformBuffers(s) EXCEPT !.gpu = g]
        ELSE [s EXCEPT !.gpu = g]

\* prepare() when every GPU call succeeds
prepare(s) == prepareMayFail(s, 0)

\* draw() when vkQueueSubmit reports failure: the frame ends at the submit
drawSubmitFails(s, img) ==
    [prepareFrame(s, img) EXCEPT
        !.gpu.failed = << SubmitCall >>,
        !.gpu.aborted = Aborts(SubmitCall, s.gpu.NDEBUG)]

renderSubmitFails(s, img) ==
    IF ~s.prepared THEN s ELSE drawSubmitFails(s, img)

\* the body of render() after the prepared check; img is the image acquired
renderAlways(s, img) ==
    updateUniformBufferOffscreen(updateUniformBuffers(updateCascades(draw(s, img))))

renderWhenBoth(s, img) ==
    LET s1 == draw(s, img)
    IN  IF (~s1.paused) /\ s1.camera.updated
        THEN updateUniformBufferOffscreen(updateUniformBuffers(updateCascades(s1)))
        ELSE s1

renderPrepared(s, img) ==
    LET s1 == draw(s, img)
    IN  IF (~s1.paused) \/ s1.camera.updated
        THEN updateUniformBufferOffscreen(updateUniformBuffers(updateCascades(s1)))
        ELSE s1

render(s, img) == IF ~s.prepared THEN s ELSE renderPrepared(s, img)

viewChanged(s) == updateUniformBufferOffscreen(updateUniformBuffers(s))

\* the widgets of OnUpdateUIOverlay; click / value is what the user did
CheckBoxReflection(s, click) ==
    IF click
    THEN buildCommandBuffers([s EXCEPT !.debugDisplayReflection = ~@])
    ELSE s

CheckBoxRefractionNoRebuild(s, click) ==
    IF click THEN [s EXCEPT !.debugDisplayRefraction = ~@] ELSE s

CheckBoxRefraction(s, click) ==
    IF click
    THEN buildCommandBuffers([s EXCEPT !.debugDisplayRefraction = ~@])
    ELSE s

CheckBoxCascades(s, click) ==
    IF click
    THEN buildCommandBuffers([s EXCEPT !.cascadeDebug.enabled = ~@])
    ELSE s

\* UIOverlay::sliderInt and sliderFloat: the value a drag to value leaves in
\* the variable, kept within min .. max
sliderInt(value, min, max) ==
    IF value < min THEN min ELSE IF value > max THEN max ELSE value

sliderFloat(value, min, max) ==
    IF RLt(value, min) THEN min ELSE IF RLt(max, value) THEN max ELSE value

\* value is where the user drags the slider to
SliderCascadeToCount(s, value) ==
    LET index == sliderInt(value, 0, SHADOW_MAP_CASCADE_COUNT)
    IN  IF s.cascadeDebug.enabled /\ index # s.cascadeDebug.cascadeIndex
        THEN buildCommandBuffers([s EXCEPT !.cascadeDebug.cascadeIndex = index])
        ELSE s

SliderCascade(s, value) ==
    LET index == sliderInt(value, 0, SHADOW_MAP_CASCADE_COUNT - 1)
    IN  IF s.cascadeDebug.enabled /\ index # s.cascadeDebug.cascadeIndex
        THEN buildCommandBuffers([s EXCEPT !.cascadeDebug.cascadeIndex = index])
        ELSE s

SliderLambdaRebuilds(s, value) ==
    LET lambda == sliderFloat(value, <<1, 10>>, One)
    IN  IF lambda # s.cascadeSplitLambda
        THEN buildCommandBuffers(
                 updateUniformBuffers(updateCascades([s EXCEPT !.cascadeSplitLambda = lambda])))
        ELSE s

SliderLambda(s, value) ==
    LET lambda == sliderFloat(value, <<1, 10>>, One)
    IN  IF lambda # s.cascadeSplitLambda
        THEN updateUniformBuffers(updateCascades([s EXCEPT !.cascadeSplitLambda = lambda]))
        ELSE s

\* the sliders of the "Terrain layers" header: layers is what they leave in
\* uboTerrain.layers; updateTerrain is set when one moved and never read
TerrainSliders(s, layers) == [s EXCEPT !.uboTerrain.layers = layers]

\* in.header: the "Debugging" header is open
OnUpdateUIOverlay(s, in) ==
    TerrainSliders(
        IF in.header
        THEN SliderLambda(
               SliderCascade(
                 CheckBoxCascades(
                   CheckBoxRefraction(
                     CheckBoxReflection(s, in.reflection),
                     in.refraction),
                   in.cascades),
                 in.cascadeIndex),
               in.lambda)
        ELSE s,
        in.layers)

\* where the user can drag the cascade slider and the lambda slider to: any
\* place on the slider and past either end
CascadeDrags == (0 - 1) .. SHADOW_MAP_CASCADE_COUNT

LambdaDrags == LambdaValues \cup { Zero, FromInt(2) }

\* what the user can do to the overlay in one frame: click any of the check
\* boxes, or drag one of the sliders
UIInputs ==
    { [header |-> FALSE, reflection |-> FALSE, refraction |-> FALSE, cascades |-> FALSE,
       cascadeIndex |-> cascadeDebug.cascadeIndex, lambda |-> cascadeSplitLambda,
       layers |-> uboTerrain.layers] }
    \cup
    { [header |-> TRUE, reflection |-> a, refraction |-> b, cascades |-> c,
       cascadeIndex |-> cascadeDebug.cascadeIndex, lambda |-> cascadeSplitLambda,
       layers |-> uboTerrain.layers] :
         a \in BOOLEAN, b \in BOOLEAN, c \in BOOLEAN }
    \cup
    { [header |-> TRUE, reflection |-> FALSE, refraction |-> FALSE, cascades |-> FALSE,
       cascadeIndex |-> k, lambda |-> cascadeSplitLambda,
       layers |-> uboTerrain.layers] : k \in CascadeDrags }
    \cup
    { [header |-> TRUE, reflection |-> FALSE, refraction |-> FALSE, cascades |-> FALSE,
       cascadeIndex |-> cascadeDebug.cascadeIndex, lambda |-> l, layers |-> uboTerrain.layers] : l \in LambdaDrags }

\* ------------------------------------------------------------------------
\* The state machine
\* ------------------------------------------------------------------------
\* values an uninitialized float can hold
GarbageFloats == { <<0, 1>>, <<7, 1>> }

\* the cascades array before the first updateCascades
UninitCascades ==
    { [k \in 1 .. SHADOW_MAP_CASCADE_COUNT |->
          [ splitDepth |-> g,
            viewProjMatrix |-> [ invCam |-> <<g, g, -1>>, sliceNear |-> g,
                                 sliceFar |-> g, lightDir |-> <<0, 0, 0, 0>> ] ]] :
      g \in GarbageFloats }

\* what the constructor leaves, but for the camera, the light and lambda
Constructed ==
    /\ prepared = FALSE
    /\ paused = FALSE
    /\ \E e \in SwapchainExtents : width = e[1] /\ height = e[2]
    /\ debugDisplayReflection = FALSE
    /\ debugDisplayRefraction = FALSE
    /\ cascadeDebug = [enabled |-> FALSE, cascadeIndex |-> 0]
    /\ cascades \in UninitCascades
    /\ cascadeSplits = <<>>
    /\ lastSplitDist = Zero
    /\ uniformBuffers = [b \in {"vsShared", "vsMirror", "vsOffScreen", "vsDebugQuad",
                                "terrain", "sky", "CSM", "depthPass"} |-> NoBuffer]
    /\ commandBuffers = [i \in Images |-> [recorded |-> FALSE]]
    /\ currentBuffer = 0
    /\ pending = {}
    /\ recordedWhilePending = FALSE
    /\ submittedSinceRecord = FALSE
    /\ uboTerrain = [layers |-> ConstructorLayers]

NoCall == [lastCall |-> <<>>, repeated |-> FALSE]

Init ==
    /\ Constructed
    /\ camera = [znear |-> zNear, zfar |-> zFar, view |-> 0, updated |-> FALSE]
    /\ lightPos = ConstructorLightPos
    /\ cascadeSplitLambda = InitialLambda
    /\ gpu = NoCalls(FALSE)
    /\ harness = NoCall

Prepare ==
    /\ ~prepared
    /\ Running(gpu)
    /\ \E r \in {prepare(Cur)} : Commit(r)
    /\ UNCHANGED harness

\* one frame: p and u are what the base class made of paused and
\* camera.updated before it calls render(), img is the image acquired
RenderFrame(p, u, img) ==
    /\ Running(gpu)
    /\ \E r \in {render([Cur EXCEPT !.paused = p, !.camera.updated = u], img)} :
        Commit(r) /\ UNCHANGED harness

Render ==
    \E p, u \in BOOLEAN, img \in Images : RenderFrame(p, u, img)

ViewChanged ==
    /\ prepared
    /\ Running(gpu)
    /\ \E v \in Views :
        \E r \in {viewChanged([Cur EXCEPT !.camera.view = v])} :
            Commit(r) /\ UNCHANGED harness

UpdateUIOverlay ==
    /\ prepared
    /\ Running(gpu)
    /\ \E in \in UIInputs :
        \E r \in {OnUpdateUIOverlay(Cur, in)} : Commit(r) /\ UNCHANGED harness

Next ==
    \/ Prepare
    \/ Render
    \/ ViewChanged
    \/ UpdateUIOverlay

Spec == Init /\ [][Next]_vars

\* ------------------------------------------------------------------------
\* updateCascades on its own: the inputs are drawn from bounded sets
\* ------------------------------------------------------------------------
\* the values updateCascades reads
CascadeInput == <<camera.znear, camera.zfar, camera.view, cascadeSplitLambda, lightPos>>

CascadesInit ==
    /\ Constructed
    /\ \E far \in FarClips, v \in Views :
          camera = [znear |-> zNear, zfar |-> far, view |-> v, updated |-> FALSE]
    /\ lightPos \in {ConstructorLightPos, UniformLightPos}
    /\ cascadeSplitLambda \in LambdaValues \cup {InitialLambda}
    /\ gpu = NoCalls(FALSE)
    /\ harness = NoCall

\* the same with a camera whose clip planes may be degenerate
CascadesInitAnyClip ==
    /\ Constructed
    /\ \E clip \in { <<zNear, far>> : far \in FarClips } \cup DegenerateClips, v \in Views :
          camera = [znear |-> clip[1], zfar |-> clip[2], view |-> v, updated |-> FALSE]
    /\ lightPos \in {ConstructorLightPos, UniformLightPos}
    /\ cascadeSplitLambda \in LambdaValues \cup {InitialLambda}
    /\ gpu = NoCalls(FALSE)
    /\ harness = NoCall

\* the camera moves, the light is set or the slider is dragged
SetCascadeInput ==
    /\ \E v \in Views : camera' = [camera EXCEPT !.view = v]
    /\ lightPos' \in {ConstructorLightPos, UniformLightPos}
    /\ cascadeSplitLambda' \in LambdaValues \cup {InitialLambda}
    /\ harness' = [harness EXCEPT !.repeated = FALSE]
    /\ UNCHANGED <<prepared, paused, width, height, debugDisplayReflection,
                   debugDisplayRefraction, cascadeDebug, cascades, cascadeSplits,
                   lastSplitDist, uniformBuffers, commandBuffers, currentBuffer,
                   pending, recordedWhilePending, submittedSinceRecord, gpu,
                   uboTerrain>>

\* one call of updateCascades; harness.repeated: its inputs are those of the
\* call before it
CallUpdateCascades ==
    /\ \E r \in {updateCascades(Cur)} : Commit(r)
    /\ harness' = [lastCall |-> CascadeInput, repeated |-> (harness.lastCall = CascadeInput)]

CascadesNext ==
    \/ SetCascadeInput
    \/ CallUpdateCascades

SpecCascades == CascadesInit /\ [][CascadesNext]_vars

SpecAnyClip == CascadesInitAnyClip /\ [][CascadesNext]_vars

\* ------------------------------------------------------------------------
\* The loops of updateCascades, one step at a time (SpecLoop)
\* ------------------------------------------------------------------------
\* no declaration of the inner counter is in scope
NoCounter == -1

\* the name i inside the outer loop's body: the innermost declaration in scope
CounterI(l) == IF l.inner # NoCounter THEN l.inner ELSE l.outer

SetCounterI(l, v) ==
    IF l.inner # NoCounter THEN [l EXCEPT !.inner = v] ELSE [l EXCEPT !.outer = v]

\* for (i = 0; ...): an assignment to the counter in scope
AssignCounter(l) == SetCounterI(l, 0)

\* for (uint32_t i = 0; ...): a declaration that hides the outer counter
DeclareCounter(l) == [l EXCEPT !.inner = 0]

\* the end of a for statement ends the scope of its counter
LeaveLoop(l) == [l EXCEPT !.inner = NoCounter]

\* the four inner loops of the outer loop's body, in order, with their bounds
InnerLoops ==
    << [name |-> "project", bound |-> 8],
       [name |-> "slice",   bound |-> 4],
       [name |-> "center",  bound |-> 8],
       [name |-> "radius",  bound |-> 8] >>

\* where the outer loop stands before its first test
LoopStart ==
    [ pc |-> "test", fors |-> 0, outer |-> 0, inner |-> NoCounter,
      reads |-> <<>>, writes |-> <<>> ]

\* i < SHADOW_MAP_CASCADE_COUNT, then float splitDist = cascadeSplits[i]
OuterTest(l) ==
    IF CounterI(l) < SHADOW_MAP_CASCADE_COUNT
    THEN [l EXCEPT !.pc = "for", !.fors = 1, !.reads = Append(@, CounterI(l))]
    ELSE [l EXCEPT !.pc = "done"]

\* the init statement of inner loop l.fors
InnerInit(l) == [DeclareCounter(l) EXCEPT !.pc = "body"]

\* the test of inner loop l.fors, and its body and increment or its end
InnerTest(l) ==
    IF CounterI(l) < InnerLoops[l.fors].bound
    THEN SetCounterI(l, CounterI(l) + 1)
    ELSE IF l.fors < Len(InnerLoops)
         THEN [LeaveLoop(l) EXCEPT !.pc = "for", !.fors = @ + 1]
         ELSE [LeaveLoop(l) EXCEPT !.pc = "store", !.fors = 0]

\* cascades[i].splitDepth = ..., cascades[i].viewProjMatrix = ..., then i++
StoreCascade(l) ==
    [SetCounterI(l, CounterI(l) + 1) EXCEPT !.pc = "test", !.writes = Append(@, CounterI(l))]

LoopInit ==
    /\ Constructed
    /\ camera = [znear |-> zNear, zfar |-> zFar, view |-> 0, updated |-> FALSE]
    /\ lightPos = ConstructorLightPos
    /\ cascadeSplitLambda = InitialLambda
    /\ gpu = NoCalls(FALSE)
    /\ harness = LoopStart

LoopStep(pc, step) ==
    /\ harness.pc = pc
    /\ harness' = step
    /\ UNCHANGED <<prepared, paused, width, height, camera, lightPos,
                   debugDisplayReflection, debugDisplayRefraction, cascadeDebug,
                   cascadeSplitLambda, cascades, cascadeSplits, lastSplitDist,
                   uniformBuffers, commandBuffers, currentBuffer, pending,
                   recordedWhilePending, submittedSinceRecord, gpu, uboTerrain>>

OuterTestStep == LoopStep("test", OuterTest(harness))

InnerInitStep == LoopStep("for", InnerInit(harness))

InnerTestStep == LoopStep("body", InnerTest(harness))

StoreCascadeStep == LoopStep("store", StoreCascade(harness))

LoopNext ==
    \/ OuterTestStep
    \/ InnerInitStep
    \/ InnerTestStep
    \/ StoreCascadeStep

\* the function runs on once called
SpecLoop == LoopInit /\ [][LoopNext]_vars /\ WF_vars(LoopNext)

\* ------------------------------------------------------------------------
\* buildCommandBuffers on its own: the debug controls are drawn from their
\* ranges (SpecRecord)
\* ------------------------------------------------------------------------
\* the checkboxes and the cascade slider of the overlay write the controls
SetDebugControls ==
    /\ debugDisplayReflection' \in BOOLEAN
    /\ debugDisplayRefraction' \in BOOLEAN
    /\ \E e \in BOOLEAN, k \in CascadeIndices :
          cascadeDebug' = [enabled |-> e, cascadeIndex |-> k]
    /\ UNCHANGED <<prepared, paused, width, height, camera, lightPos,
                   cascadeSplitLambda, cascades, cascadeSplits, lastSplitDist,
                   uniformBuffers, commandBuffers, currentBuffer, pending,
                   recordedWhilePending, submittedSinceRecord, gpu, harness,
                   uboTerrain>>

\* one call of buildCommandBuffers
CallBuildCommandBuffers ==
    /\ \E r \in {buildCommandBuffers(Cur)} : Commit(r)
    /\ UNCHANGED harness

RecordNext ==
    \/ SetDebugControls
    \/ CallBuildCommandBuffers

SpecRecord == Init /\ [][RecordNext]_vars

\* ------------------------------------------------------------------------
\* Reading a recorded command buffer
\* ------------------------------------------------------------------------
\* the commands held by the command buffer of image i
Commands(i) ==
    IF commandBuffers[i].recorded
    THEN RecordCommandBuffer(i, commandBuffers[i].from)
    ELSE <<>>

IsBeginRenderPass(c) == c.op = "BeginRenderPass"

IsDraw(c) == c.op = "Draw"

IsQuadDraw(c) == c.op = "Draw" /\ c.obj = "quad" /\ c.args = <<6, 1, 0, 0>>

IsDebugPush(c) ==
    /\ c.op = "PushConstants"
    /\ c.layout \in {"pipelineLayouts.debug", "cascadeDebug.pipelineLayout"}

\* the framebuffer a render pass renders to; cascades and swapchain images
\* have one framebuffer each, told apart by their index
PassTarget(c) ==
    <<c.obj, IF c.obj \in {"cascades.frameBuffer", "frameBuffers"} THEN c.args[1] ELSE -1>>

\* the targets of the render passes begun in cmds, in order
PassesBegun(cmds) ==
    LET b == SelectSeq(cmds, IsBeginRenderPass)
    IN  [k \in 1 .. Len(b) |-> PassTarget(b[k])]

IsPassMark(c) == c.op \in {"BeginRenderPass", "EndRenderPass", "End"}

\* cmds opens and closes render passes one at a time and ends the command
\* buffer, as its last command, with none open
PassesClosed(cmds) ==
    LET m == SelectSeq(cmds, IsPassMark)
    IN  /\ Len(m) % 2 = 1
        /\ \A k \in 1 .. Len(m) - 1 :
              m[k].op = (IF k % 2 = 1 THEN "BeginRenderPass" ELSE "EndRenderPass")
        /\ m[Len(m)].op = "End"
        /\ cmds[Len(cmds)].op = "End"

\* the positions in cmds of the commands with operation op
Positions(cmds, op) ==
    SelectSeq([j \in 1 .. Len(cmds) |-> j], LAMBDA j : cmds[j].op = op)

\* where the main pass, the last one of a command buffer, begins in cmds
MainPassStart(cmds) ==
    Positions(cmds, "BeginRenderPass")[SHADOW_MAP_CASCADE_COUNT + 3]

\* the draws of the main pass and those of the passes before it
MainPassDraws(cmds) ==
    SelectSeq(SubSeq(cmds, MainPassStart(cmds), Len(cmds)), IsDraw)

EarlierDraws(cmds) ==
    SelectSeq(SubSeq(cmds, 1, MainPassStart(cmds) - 1), IsDraw)

\* the debug displays a command buffer shows: the push constants of its debug quads
DebugDisplays(cmds) ==
    LET b == SelectSeq(cmds, IsDebugPush)
    IN  [k \in 1 .. Len(b) |-> <<b[k].layout, b[k].args>>]

\* the debug displays the current toggle values ask for
CurrentDebugDisplays ==
    (IF debugDisplayReflection THEN << <<"pipelineLayouts.debug", <<0>>>> >> ELSE <<>>)
    \o (IF debugDisplayRefraction THEN << <<"pipelineLayouts.debug", <<1>>>> >> ELSE <<>>)
    \o (IF cascadeDebug.enabled
        THEN << <<"cascadeDebug.pipelineLayout", <<0, 0, 0, 0, cascadeDebug.cascadeIndex>>>> >>
        ELSE <<>>)

EnabledToggles(t) ==
    (IF t.debugDisplayReflection THEN 1 ELSE 0)
    + (IF t.debugDisplayRefraction THEN 1 ELSE 0)
    + (IF t.cascadeDebug.enabled THEN 1 ELSE 0)

\* the toggle values t with every debug display switched off
NoDebug(t) ==
    [t EXCEPT !.debugDisplayReflection = FALSE, !.debugDisplayRefraction = FALSE,
              !.cascadeDebug.enabled = FALSE]

\* ------------------------------------------------------------------------
\* Properties of recorded command buffers (Spec, SpecRecord)
\* ------------------------------------------------------------------------
\* the order of passes the frame depends on, for swapchain image i
PassOrder(i) ==
    [k \in 1 .. SHADOW_MAP_CASCADE_COUNT + 3 |->
        IF k <= SHADOW_MAP_CASCADE_COUNT THEN <<"cascades.frameBuffer", k - 1>>
        ELSE IF k = SHADOW_MAP_CASCADE_COUNT + 1
             THEN <<"offscreenPass.refraction.frameBuffer", -1>>
        ELSE IF k = SHADOW_MAP_CASCADE_COUNT + 2
             THEN <<"offscreenPass.reflection.frameBuffer", -1>>
        ELSE <<"frameBuffers", i>>]

\* C1: every recorded command buffer, whatever the debug toggles, begins its
\* render passes in the order cascade 0 .. N-1, refraction, reflection, main;
\* none is left out, repeated or moved.
PassOrderFixed ==
    \A i \in Images :
        commandBuffers[i].recorded => PassesBegun(Commands(i)) = PassOrder(i)

\* C1 witness: command buffers recorded with all three debug displays enabled
PassOrderWitness ==
    /\ prepared
    /\ \A i \in Images :
          /\ commandBuffers[i].recorded
          /\ commandBuffers[i].from.debugDisplayReflection
          /\ commandBuffers[i].from.debugDisplayRefraction
          /\ commandBuffers[i].from.cascadeDebug.enabled
          /\ Len(PassesBegun(Commands(i))) = SHADOW_MAP_CASCADE_COUNT + 3

\* C2: in every recorded command buffer each render pass is ended before the
\* next one begins and before the command buffer is ended: no pass is nested
\* and none is open at the end.
PassesMatched ==
    \A i \in Images :
        commandBuffers[i].recorded =>
            /\ Commands(i)[1].op = "Begin"
            /\ PassesClosed(Commands(i))

\* C2 witness: a recorded command buffer with the refraction display alone,
\* holding as many pass ends as the frame has passes
PassesMatchedWitness ==
    /\ commandBuffers[0].recorded
    /\ commandBuffers[0].from.debugDisplayRefraction
    /\ ~commandBuffers[0].from.debugDisplayReflection
    /\ ~commandBuffers[0].from.cascadeDebug.enabled
    /\ Len(SelectSeq(Commands(0), LAMBDA c : c.op = "EndRenderPass"))
           = SHADOW_MAP_CASCADE_COUNT + 3

\* C3: between handlers, every command buffer holds exactly the debug
\* displays that the current values of debugDisplayReflection,
\* debugDisplayRefraction, cascadeDebug.enabled and cascadeDebug.cascadeIndex
\* ask for; none is left recorded from stale values.
CommandBuffersCurrent ==
    prepared =>
        \A i \in Images :
            /\ commandBuffers[i].recorded
            /\ DebugDisplays(Commands(i)) = CurrentDebugDisplays

\* C3 witness: after several changes in the overlay, the cascade display shows
\* the last cascade next to the reflection display
CommandBuffersCurrentWitness ==
    /\ prepared
    /\ debugDisplayReflection /\ ~debugDisplayRefraction
    /\ cascadeDebug.enabled
    /\ cascadeDebug.cascadeIndex = SHADOW_MAP_CASCADE_COUNT - 1
    /\ Len(DebugDisplays(Commands(1))) = 2

\* C4: the main pass holds the draws it holds with every debug display off,
\* plus one 6-vertex quad per enabled toggle; the shadow, refraction and
\* reflection passes hold the same draws whatever the toggles.
MainPassDrawCount ==
    \A i \in Images :
        commandBuffers[i].recorded =>
            LET t == commandBuffers[i].from
                main == MainPassDraws(Commands(i))
                base == RecordCommandBuffer(i, NoDebug(t))
            IN  /\ Len(main) = Len(MainPassDraws(base)) + EnabledToggles(t)
                /\ Len(SelectSeq(main, IsQuadDraw)) = EnabledToggles(t)
                /\ SelectSeq(main, LAMBDA c : ~IsQuadDraw(c)) = MainPassDraws(base)
                /\ EarlierDraws(Commands(i)) = EarlierDraws(base)

\* C4 witness: two toggles enabled, and two quads among the six draws of the
\* main pass
MainPassDrawCountWitness ==
    /\ commandBuffers[0].recorded
    /\ EnabledToggles(commandBuffers[0].from) = 2
    /\ Len(SelectSeq(MainPassDraws(Commands(0)), IsQuadDraw)) = 2
    /\ Len(MainPassDraws(Commands(0))) = 6
    /\ Len(EarlierDraws(Commands(0))) = SHADOW_MAP_CASCADE_COUNT + 4

SplitsIncreasing ==
    harness.lastCall # <<>> =>
        \A k \in 1 .. SHADOW_MAP_CASCADE_COUNT :
            /\ RLt(Zero, cascadeSplits[k])
            /\ RLe(cascadeSplits[k], One)
            /\ k < SHADOW_MAP_CASCADE_COUNT => RLt(cascadeSplits[k], cascadeSplits[k + 1])

\* C6 witness: the splits of a call with lambda at the low end of the slider;
\* the first lies strictly inside (0, 1) and the last is 1
SplitsIncreasingWitness ==
    /\ harness.lastCall = CascadeInput
    /\ cascadeSplitLambda = <<1, 10>>
    /\ camera.zfar = zFar
    /\ RLt(Zero, cascadeSplits[1]) /\ RLt(cascadeSplits[1], cascadeSplits[2])
    /\ cascadeSplits[SHADOW_MAP_CASCADE_COUNT] = One

\* C7: after updateCascades, the split depth stored for cascade i is
\* -(near + f_i * (far - near)) for the split fraction f_i of that cascade,
\* and it is negative.
SplitDepthStored ==
    harness.lastCall # <<>> =>
        \A k \in 1 .. SHADOW_MAP_CASCADE_COUNT :
            /\ cascades[k].splitDepth =
                   RNeg(RAdd(camera.znear,
                             RMul(cascadeSplits[k], RSub(camera.zfar, camera.znear))))
            /\ RLt(cascades[k].splitDepth, Zero)

\* C7 witness: after a call, the last cascade's split depth is minus the far
\* plane and the first one lies between minus far and minus near
SplitDepthStoredWitness ==
    /\ harness.lastCall = CascadeInput
    /\ cascades[SHADOW_MAP_CASCADE_COUNT].splitDepth = RNeg(camera.zfar)
    /\ RLt(RNeg(camera.zfar), cascades[1].splitDepth)
    /\ RLt(cascades[1].splitDepth, RNeg(camera.znear))

\* C8: the slices partition the depth range in cascade order: the first
\* starts at fraction 0, each starts where the one before ends, the last ends
\* at fraction 1, none is empty, and the magnitude of the split depth grows
\* with the cascade index.
SlicesPartition ==
    harness.lastCall # <<>> =>
        /\ cascades[1].viewProjMatrix.sliceNear = Zero
        /\ cascades[SHADOW_MAP_CASCADE_COUNT].viewProjMatrix.sliceFar = One
        /\ \A k \in 1 .. SHADOW_MAP_CASCADE_COUNT :
              /\ RLt(cascades[k].viewProjMatrix.sliceNear, cascades[k].viewProjMatrix.sliceFar)
              /\ k > 1 => /\ cascades[k].viewProjMatrix.sliceNear
                                = cascades[k - 1].viewProjMatrix.sliceFar
                          /\ RLt(RNeg(cascades[k - 1].splitDepth), RNeg(cascades[k].splitDepth))

\* C8 witness: a call with lambda 1 (the logarithmic split): the second slice
\* starts inside the range, where the first one ends
SlicesPartitionWitness ==
    /\ harness.lastCall = CascadeInput
    /\ cascadeSplitLambda = One
    /\ RLt(Zero, cascades[2].viewProjMatrix.sliceNear)
    /\ cascades[2].viewProjMatrix.sliceNear = cascades[1].viewProjMatrix.sliceFar
    /\ cascades[2].viewProjMatrix.sliceFar # One

CascadesFresh ==
    cascades = UpdateCascadesTable[<<<<camera.znear, camera.zfar>>, camera.view,
                                     cascadeSplitLambda, lightPos>>].cascades

\* every uniform buffer holds what an upload would write now
BuffersFresh ==
    uniformBuffers =
        [ vsShared |-> Upload(SharedBlock(camera)),
          vsMirror |-> Upload(WaterPlaneBlock(camera)),
          vsDebugQuad |-> Upload(DebugQuadBlock(width, height)),
          terrain |-> Upload(TerrainBlock(camera, lightPos, uboTerrain.layers)),
          depthPass |-> Upload(DepthPassBlock(cascades)),
          CSM |-> Upload(CSMBlock(camera, lightPos, cascades)),
          sky |-> Upload(SharedBlock(camera)),
          vsOffScreen |-> Upload(OffscreenBlock(camera)) ]

\* a step of render() on a prepared application; render() changes neither
\* the command buffers nor the camera pose nor lambda, which tells most other
\* steps apart at once
PreparedFrame ==
    /\ prepared
    /\ commandBuffers' = commandBuffers
    /\ camera'.view = camera.view
    /\ cascadeSplitLambda' = cascadeSplitLambda
    /\ RenderFrame(paused', camera'.updated, currentBuffer')

\* C10: once prepared, a frame recomputes the cascades and uploads the
\* uniform buffers if and only if the application is not paused or the camera
\* was updated; a paused frame with an unchanged camera leaves the cascades
\* and all uniform buffers as they were.
RenderGated ==
    [][PreparedFrame =>
          IF (~paused') \/ camera'.updated
          THEN CascadesFresh' /\ BuffersFresh'
          ELSE UNCHANGED <<cascades, uniformBuffers>>]_vars

\* C10 witness: a paused frame was drawn while the cascades still belong to
\* another camera pose
RenderGatedWitness ==
    /\ prepared
    /\ paused /\ ~camera.updated
    /\ currentBuffer = 1
    /\ submittedSinceRecord
    /\ ~CascadesFresh

\* ------------------------------------------------------------------------
\* Properties of the recorded passes (SpecRecord)
\* ------------------------------------------------------------------------
\* the commands inside the k-th render pass (1-based) of cmds
PassBody(cmds, k) ==
    SubSeq(cmds, Positions(cmds, "BeginRenderPass")[k] + 1,
                 Positions(cmds, "EndRenderPass")[k] - 1)

IsScenePush(c) ==
    c.op = "PushConstants" /\ c.layout \in {"pipelineLayouts.sky", "pipelineLayouts.terrain"}

\* the blocks pushed for the scene draws of the k-th pass, with their layouts
ScenePushes(cmds, k) ==
    LET b == SelectSeq(PassBody(cmds, k), IsScenePush)
    IN  [n \in 1 .. Len(b) |-> <<b[n].layout, b[n].args>>]

\* the table of push-constant blocks: scale, clip plane, shadows
ScenePushTable ==
    [ sceneDrawTypeRefract |-> <<1, 1, 1, 0, 1, 0, 0, 0>>,
      sceneDrawTypeReflect |-> <<1, -1, 1, 0, 1, 0, 0, 0>>,
      sceneDrawTypeDisplay |-> <<1, 1, 1, 0, 0, 0, 0, 1>> ]

BothScenePushes(block) ==
    << <<"pipelineLayouts.sky", block>>, <<"pipelineLayouts.terrain", block>> >>

\* C13: the block drawScene pushes depends on the draw-mode tag alone, in
\* every pass of every command buffer, whatever was recorded before it:
\* refract pushes scale (1,1,1), clip plane (0,1,0,0), shadows 0; reflect
\* scale (1,-1,1), the same clip plane, shadows 0; display scale (1,1,1), clip
\* plane 0, shadows 1; sky and terrain of one call get the same block.
ScenePushByTag ==
    \A i \in Images :
        commandBuffers[i].recorded =>
            /\ ScenePushes(Commands(i), SHADOW_MAP_CASCADE_COUNT + 1)
                   = BothScenePushes(ScenePushTable.sceneDrawTypeRefract)
            /\ ScenePushes(Commands(i), SHADOW_MAP_CASCADE_COUNT + 2)
                   = BothScenePushes(ScenePushTable.sceneDrawTypeReflect)
            /\ ScenePushes(Commands(i), SHADOW_MAP_CASCADE_COUNT + 3)
                   = BothScenePushes(ScenePushTable.sceneDrawTypeDisplay)

\* C13 witness: a recorded command buffer whose reflection pass pushes the
\* negated vertical scale after the refraction pass pushed the identity
ScenePushByTagWitness ==
    /\ commandBuffers[1].recorded
    /\ ScenePushes(Commands(1), SHADOW_MAP_CASCADE_COUNT + 1)[2][2][2] = 1
    /\ ScenePushes(Commands(1), SHADOW_MAP_CASCADE_COUNT + 2)[1][2][2] = -1
    /\ ScenePushes(Commands(1), SHADOW_MAP_CASCADE_COUNT + 3)[1][2][8] = 1

IsPushConstants(c) == c.op = "PushConstants"

\* C14: for every cascade index j, the j-th shadow pass of a command buffer
\* renders to the framebuffer whose only attachment is the one-layer view of
\* array layer j of the shadow depth image, and the draw inside the pass
\* carries cascadeIndex = j in its push constants.
ShadowPassLayer ==
    \A i \in Images :
        commandBuffers[i].recorded =>
            \A j \in CascadeIndices :
                LET begin == SelectSeq(Commands(i), IsBeginRenderPass)[j + 1]
                    push == SelectSeq(PassBody(Commands(i), j + 1), IsPushConstants)
                    fb == CascadeFrameBuffer(begin.args[1])
                IN  /\ begin.obj = "cascades.frameBuffer"
                    /\ Len(fb.attachments) = 1
                    /\ fb.attachments[1].image = "depth.image"
                    /\ fb.attachments[1].baseArrayLayer = j
                    /\ fb.attachments[1].layerCount = 1
                    /\ Len(push) = 1
                    /\ push[1].layout = "depthPass.pipelineLayout"
                    /\ push[1].args[5] = j
                    /\ Len(SelectSeq(PassBody(Commands(i), j + 1), IsDraw)) = 1

\* C14 witness: the last shadow pass of a recorded command buffer renders to
\* the last layer and pushes the last cascade index
ShadowPassLayerWitness ==
    /\ commandBuffers[0].recorded
    /\ CascadeFrameBuffer(SelectSeq(Commands(0), IsBeginRenderPass)
                              [SHADOW_MAP_CASCADE_COUNT].args[1]).attachments[1].baseArrayLayer
           = SHADOW_MAP_CASCADE_COUNT - 1
    /\ SelectSeq(PassBody(Commands(0), SHADOW_MAP_CASCADE_COUNT), IsPushConstants)[1].args[5]
           = SHADOW_MAP_CASCADE_COUNT - 1

IsDrawOrDebugPush(c) == IsDraw(c) \/ IsDebugPush(c)

\* the draws of the k-th pass of cmds, each debug quad with the push
\* constants recorded before it
DrawOrder(cmds, k) ==
    LET b == SelectSeq(PassBody(cmds, k), IsDrawOrDebugPush)
    IN  [n \in 1 .. Len(b) |->
            IF IsDraw(b[n]) THEN <<"draw", b[n].obj>> ELSE <<"push", b[n].layout, b[n].args>>]

\* the order the main pass is to have for the toggle values t
MainPassOrder(t) ==
    << <<"draw", "models.skysphere">>, <<"draw", "heightMap">>, <<"draw", "models.plane">> >>
    \o (IF t.debugDisplayReflection
        THEN << <<"push", "pipelineLayouts.debug", <<0>>>>, <<"draw", "quad">> >> ELSE <<>>)
    \o (IF t.debugDisplayRefraction
        THEN << <<"push", "pipelineLayouts.debug", <<1>>>>, <<"draw", "quad">> >> ELSE <<>>)
    \o (IF t.cascadeDebug.enabled
        THEN << <<"push", "cascadeDebug.pipelineLayout",
                  <<0, 0, 0, 0, t.cascadeDebug.cascadeIndex>>>>, <<"draw", "quad">> >>
        ELSE <<>>)
    \o << <<"draw", "UI">> >>

\* C15: in the main pass of every command buffer, for every toggle state,
\* the draws come in the order scene geometry, mirror plane, the enabled debug
\* quads (reflection with push index 0, refraction with push index 1, cascade
\* debug), and the UI overlay as the last command before the pass ends.
MainPassOrdered ==
    \A i \in Images :
        commandBuffers[i].recorded =>
            LET body == PassBody(Commands(i), SHADOW_MAP_CASCADE_COUNT + 3)
            IN  /\ DrawOrder(Commands(i), SHADOW_MAP_CASCADE_COUNT + 3)
                       = MainPassOrder(commandBuffers[i].from)
                /\ body[Len(body)] = Draw("UI", <<>>)

\* C15 witness: a main pass with the refraction and the cascade display, the
\* UI drawn after both quads
MainPassOrderedWitness ==
    /\ commandBuffers[1].recorded
    /\ ~commandBuffers[1].from.debugDisplayReflection
    /\ commandBuffers[1].from.debugDisplayRefraction
    /\ commandBuffers[1].from.cascadeDebug.enabled
    /\ Len(DrawOrder(Commands(1), SHADOW_MAP_CASCADE_COUNT + 3)) = 8
    /\ DrawOrder(Commands(1), SHADOW_MAP_CASCADE_COUNT + 3)[8] = <<"draw", "UI">>
    /\ DrawOrder(Commands(1), SHADOW_MAP_CASCADE_COUNT + 3)[4][3] = <<1>>

\* ------------------------------------------------------------------------
\* The terrain layer sliders (SpecTerrain)
\* ------------------------------------------------------------------------
\* what dragging the first layer's slider to the upper end of its range
\* 0 .. 200 leaves
LayerSliderValues ==
    { [ConstructorLayers EXCEPT ![1] = <<FromInt(200), FromInt(200)>>] }

\* the user leaves the overlay alone or drags a terrain layer slider
LayerInputs ==
    { [header |-> FALSE, reflection |-> FALSE, refraction |-> FALSE, cascades |-> FALSE,
       cascadeIndex |-> cascadeDebug.cascadeIndex, lambda |-> cascadeSplitLambda,
       layers |-> l] : l \in LayerSliderValues \cup {uboTerrain.layers} }

\* the overlay inputs of Spec, and a drag of a terrain layer slider
TerrainUIInputs == UIInputs \cup LayerInputs

UpdateUIOverlayTerrain ==
    /\ prepared
    /\ Running(gpu)
    /\ \E in \in TerrainUIInputs :
        \E r \in {OnUpdateUIOverlay(Cur, in)} : Commit(r) /\ UNCHANGED harness

TerrainNext ==
    \/ Prepare
    \/ Render
    \/ ViewChanged
    \/ UpdateUIOverlayTerrain

SpecTerrain == Init /\ [][TerrainNext]_vars

\* ------------------------------------------------------------------------
\* Setup, frames and shutdown with GPU calls that may fail (SpecLifetime)
\* ------------------------------------------------------------------------
\* either build of the program
LifetimeInit ==
    /\ Constructed
    /\ camera = [znear |-> zNear, zfar |-> zFar, view |-> 0, updated |-> FALSE]
    /\ lightPos = ConstructorLightPos
    /\ cascadeSplitLambda = InitialLambda
    /\ gpu \in {NoCalls(FALSE), NoCalls(TRUE)}
    /\ harness = NoCall

PrepareMayFail ==
    /\ ~prepared
    /\ Running(gpu)
    /\ \E fail \in 0 .. Len(SetupCalls) :
        \E r \in {prepareMayFail(Cur, fail)} : Commit(r) /\ UNCHANGED harness

\* a frame whose queue submit reports failure
FrameSubmitFails ==
    /\ Running(gpu)
    /\ \E p, u \in BOOLEAN, img \in Images :
        \E r \in {renderSubmitFails([Cur EXCEPT !.paused = p, !.camera.updated = u], img)} :
            Commit(r) /\ UNCHANGED harness

\* the application is deleted after the render loop
Destroy ==
    /\ prepared
    /\ Running(gpu)
    /\ \E r \in {destructor(Cur)} : Commit(r) /\ UNCHANGED harness

LifetimeNext ==
    \/ PrepareMayFail
    \/ Render
    \/ FrameSubmitFails
    \/ ViewChanged
    \/ Destroy

SpecLifetime == LifetimeInit /\ [][LifetimeNext]_vars

CascadeCamera(m) == m.invCam

\* C18: every upload of the cascade array by updateUniformBufferCSM is preceded
\* by an updateCascades write for the camera matrices current at the upload:
\* the cascade matrices in the CSM buffer were computed from the clip planes
\* and the view whose inverse was uploaded with them.
CascadeUploadCurrent ==
    uniformBuffers.CSM.mapped =>
        \A k \in 1 .. SHADOW_MAP_CASCADE_COUNT :
            CascadeCamera(uniformBuffers.CSM.data.cascadeViewProjMat[k])
                = <<camera.znear, camera.zfar, uniformBuffers.CSM.data.inverseViewMat>>

\* ------------------------------------------------------------------------
\* Upload sizes (Spec)
\* ------------------------------------------------------------------------
\* C19: every upload into a uniform buffer copies at most as many bytes as the
\* buffer was created with by prepareUniformBuffers; in particular the terrain
\* upload of sizeof(uboTerrain) bytes fits in uniformBuffers.terrain.
UploadsFit ==
    \A b \in DOMAIN uniformBuffers :
        uniformBuffers[b].mapped => UploadSize[b] <= BufferSize[b]

\* ------------------------------------------------------------------------
\* The first frame (Spec)
\* ------------------------------------------------------------------------
\* updateCascades has run at least once
CascadesComputed == cascadeSplits # <<>>

\* C20: before the first queue submit performed by draw(), updateCascades has
\* run at least once: every frame that submits starts from a state in which
\* the cascades have been computed.
SubmitAfterUpdateCascades ==
    [][PreparedFrame => CascadesComputed]_vars

\* ------------------------------------------------------------------------
\* Shutdown (SpecLifetime)
\* ------------------------------------------------------------------------
\* the elements of a sequence
Range(seq) == { seq[k] : k \in DOMAIN seq }

\* how many times x occurs in seq
Count(seq, x) == Cardinality({ k \in DOMAIN seq : seq[k] = x })

\* calls that create an object the application then owns
Creates(c) ==
    c.fn \in { "vkCreateImage", "vkAllocateMemory", "vkCreateImageView",
               "vkCreateFramebuffer", "vkCreateRenderPass", "vkCreateSampler",
               "vkCreateDescriptorPool", "createBuffer" }

\* the objects created so far
Created ==
    { SetupCalls[k].obj :
        k \in { j \in Range(gpu.log) :
                  Creates(SetupCalls[j]) /\ << SetupCalls[j] >> # gpu.failed } }

\* the objects prepareOffscreen and createFrameBuffer create
OffscreenObjects == { c.obj : c \in { d \in Range(prepareOffscreen) : Creates(d) } }

\* C11: every GPU object created for the offscreen targets by prepareOffscreen
\* and createFrameBuffer is destroyed exactly once by the destructor.
OffscreenDestroyedOnce ==
    gpu.destructed =>
        \A o \in OffscreenObjects \cap Created : Count(gpu.destroyed, o) = 1

\* the objects DepthImage::destroy and Cascade::destroy destroy, over the depth
\* image and every cascade
ShadowObjects ==
    Range(DepthImageDestroy) \cup UNION { Range(CascadeDestroy(i)) : i \in CascadeIndices }

\* C12: by the time the destructor returns, DepthImage::destroy and
\* Cascade::destroy have been applied to the depth image and to every cascade:
\* each shadow resource prepareCSM created has been destroyed.
ShadowResourcesDestroyed ==
    gpu.destructed =>
        \A o \in ShadowObjects \cap Created : Count(gpu.destroyed, o) >= 1

\* ------------------------------------------------------------------------
\* Failed GPU calls (SpecLifetime)
\* ------------------------------------------------------------------------
\* image, memory, view, framebuffer, render pass or sampler creation, or the
\* queue submit
CreationOrSubmit(c) ==
    c.fn \in { "vkCreateImage", "vkAllocateMemory", "vkCreateImageView",
               "vkCreateFramebuffer", "vkCreateRenderPass", "vkCreateSampler",
               "vkQueueSubmit" }

\* the setup calls were made in order, once each, and c is the last of them
LastCallMade(g, c) ==
    /\ g.log = [k \in 1 .. Len(g.log) |-> k]
    /\ g.log # <<>>
    /\ SetupCalls[Len(g.log)] = c

\* C16: if an image, memory, view, framebuffer, render-pass or sampler creation
\* during prepare, or the queue submit in draw, reports failure, the process
\* aborts at that call: no later setup step or frame operation runs, the call
\* is not retried, prepared is not set after a failed setup, and an aborted
\* process takes no further step.
AbortsAtFailedCall ==
    [][ /\ ~gpu.aborted
        /\ \A c \in Range(gpu'.failed) :
              CreationOrSubmit(c) =>
                  /\ gpu'.aborted
                  /\ c # SubmitCall => (~prepared') /\ LastCallMade(gpu', c)
                  /\ c = SubmitCall =>
                        UNCHANGED <<pending, submittedSinceRecord, cascades,
                                    cascadeSplits, uniformBuffers, commandBuffers>>
      ]_vars

AbortsAtFailedCallWitness ==
    /\ gpu.aborted
    /\ gpu.failed = << Call("vkCreateImageView", "offscreenPass.reflection.view",
                            "VK_CHECK_RESULT", 313) >>
    /\ ~prepared

\* ------------------------------------------------------------------------
\* Image layouts and the draws that sample the render targets (SpecRecord)
\* ------------------------------------------------------------------------
\* the layouts of an attachment: before its pass, during it, after it
DepthPassAttachmentKeepsLayout ==
    [ initialLayout |-> "UNDEFINED",
      layout        |-> "DEPTH_STENCIL_ATTACHMENT_OPTIMAL",
      finalLayout   |-> "DEPTH_STENCIL_ATTACHMENT_OPTIMAL" ]

DepthPassAttachment ==
    [ initialLayout |-> "UNDEFINED",
      layout        |-> "DEPTH_STENCIL_ATTACHMENT_OPTIMAL",
      finalLayout   |-> "DEPTH_STENCIL_READ_ONLY_OPTIMAL" ]

OffscreenColorAttachmentKeepsLayout ==
    [ initialLayout |-> "UNDEFINED",
      layout        |-> "COLOR_ATTACHMENT_OPTIMAL",
      finalLayout   |-> "COLOR_ATTACHMENT_OPTIMAL" ]

OffscreenColorAttachment ==
    [ initialLayout |-> "UNDEFINED",
      layout        |-> "COLOR_ATTACHMENT_OPTIMAL",
      finalLayout   |-> "SHADER_READ_ONLY_OPTIMAL" ]

\* the render targets that are sampled later: one per shadow layer, and the
\* two offscreen colour images; each is named by the framebuffer that holds it
ShadowLayers == { <<"cascades.frameBuffer", j>> : j \in CascadeIndices }
RefractionTarget == <<"offscreenPass.refraction.frameBuffer", -1>>
ReflectionTarget == <<"offscreenPass.reflection.frameBuffer", -1>>
ColourTargets == { RefractionTarget, ReflectionTarget }

\* the attachment description of the render pass that renders to a target
AttachmentOf(target) ==
    IF target \in ShadowLayers THEN DepthPassAttachment ELSE OffscreenColorAttachment

\* the image infos the descriptor sets hold: the targets sampled through it
\* and the layout it declares for them
depthMapDescriptor ==
    [ targets |-> ShadowLayers, imageLayout |-> "DEPTH_STENCIL_READ_ONLY_OPTIMAL" ]

\* target.descriptor as createFrameBuffer sets it
TargetDescriptor(target) ==
    [ targets |-> {target}, imageLayout |-> "SHADER_READ_ONLY_OPTIMAL" ]

\* the image infos of the render targets in each descriptor set
DescriptorSetImages(set) ==
    CASE set = "descriptorSets.waterplane" ->
             { TargetDescriptor(RefractionTarget), TargetDescriptor(ReflectionTarget),
               depthMapDescriptor }
      [] set = "descriptorSets.debugquad" ->
             { TargetDescriptor(ReflectionTarget), TargetDescriptor(RefractionTarget) }
      [] set = "descriptorSets.terrain" -> { depthMapDescriptor }
      [] set = "cascadeDebug.descriptorSet" -> { depthMapDescriptor }
      [] OTHER -> {}

\* the last command with operation op before position p of cmds, 0 if none
RECURSIVE LastBefore(_, _, _)
LastBefore(cmds, p, op) ==
    IF p <= 1 THEN 0
    ELSE IF cmds[p - 1].op = op THEN p - 1
    ELSE LastBefore(cmds, p - 1, op)

\* the descriptor set bound at position p
BoundSet(cmds, p) ==
    LET b == LastBefore(cmds, p, "BindDescriptorSets")
    IN  IF b = 0 THEN "" ELSE cmds[b].obj

\* the draw at position p has shadows switched off: the last block pushed
\* before it is drawScene's PushConst with shadows = 0
ShadowsOff(cmds, p) ==
    LET b == LastBefore(cmds, p, "PushConstants")
    IN  /\ b # 0
        /\ cmds[b].layout \in {"pipelineLayouts.sky", "pipelineLayouts.terrain"}
        /\ cmds[b].args[Len(cmds[b].args)] = 0

\* the layout of a render target when the command at position p executes, in
\* the first frame: undefined until its pass begins, the subpass layout
\* inside the pass, the final layout once the pass has ended
LayoutAt(cmds, p, target) ==
    LET begins == { b \in 1 .. p - 1 :
                      IsBeginRenderPass(cmds[b]) /\ PassTarget(cmds[b]) = target }
    IN  IF begins = {} THEN AttachmentOf(target).initialLayout
        ELSE LET b == CHOOSE x \in begins : \A y \in begins : y <= x
             IN  IF \E e \in b + 1 .. p - 1 : cmds[e].op = "EndRenderPass"
                 THEN AttachmentOf(target).finalLayout
                 ELSE AttachmentOf(target).layout

\* the positions of the draws of cmds that sample one of the given targets
SamplingDraws(cmds, targets) ==
    { p \in 1 .. Len(cmds) :
        /\ IsDraw(cmds[p])
        /\ \E d \in DescriptorSetImages(BoundSet(cmds, p)) : d.targets \cap targets # {} }

\* the draws that sample the shadow map with shadows enabled
ShadowedDraws(cmds) ==
    { p \in SamplingDraws(cmds, ShadowLayers) : ~ShadowsOff(cmds, p) }

\* where the last cascade pass ends in cmds
CascadePassesEnd(cmds) == Positions(cmds, "EndRenderPass")[SHADOW_MAP_CASCADE_COUNT]

\* C21: in every command buffer all N cascade passes have ended, leaving every
\* layer of the depth image in the layout the sampling descriptor declares,
\* before any draw that samples the shadow map with shadows enabled: no such
\* draw is recorded before or between the cascade passes.
ShadowPassesBeforeSampling ==
    \A i \in Images :
        commandBuffers[i].recorded =>
            LET cmds == Commands(i)
            IN  \A p \in ShadowedDraws(cmds) :
                    /\ p > CascadePassesEnd(cmds)
                    /\ \A layer \in ShadowLayers :
                          LayoutAt(cmds, p, layer) = depthMapDescriptor.imageLayout

ShadowPassesBeforeSamplingWitness ==
    /\ commandBuffers[0].recorded
    /\ ShadowedDraws(Commands(0)) # {}
    /\ commandBuffers[0].from.cascadeDebug.enabled

\* where the pass that renders to target begins and ends in cmds
PassBegin(cmds, target) ==
    CHOOSE b \in 1 .. Len(cmds) :
        IsBeginRenderPass(cmds[b]) /\ PassTarget(cmds[b]) = target

PassEnd(cmds, target) ==
    CHOOSE e \in PassBegin(cmds, target) + 1 .. Len(cmds) :
        /\ cmds[e].op = "EndRenderPass"
        /\ \A x \in PassBegin(cmds, target) + 1 .. e - 1 : cmds[x].op # "EndRenderPass"

\* C22: each offscreen colour target goes undefined -> colour attachment ->
\* shader read-only within its own pass, and every draw that samples the
\* reflection or refraction target lies in the main pass, after both offscreen
\* passes have ended, where both targets are in the layout their descriptor
\* declares.
OffscreenLayoutsAtSampling ==
    \A i \in Images :
        commandBuffers[i].recorded =>
            LET cmds == Commands(i)
            IN  /\ \A target \in ColourTargets :
                      /\ LayoutAt(cmds, PassBegin(cmds, target), target) = "UNDEFINED"
                      /\ \A p \in PassBegin(cmds, target) + 1 .. PassEnd(cmds, target) :
                            LayoutAt(cmds, p, target) = "COLOR_ATTACHMENT_OPTIMAL"
                      /\ LayoutAt(cmds, PassEnd(cmds, target) + 1, target)
                            = "SHADER_READ_ONLY_OPTIMAL"
                /\ \A p \in SamplingDraws(cmds, ColourTargets) :
                      /\ p > MainPassStart(cmds)
                      /\ \A target \in ColourTargets :
                            /\ p > PassEnd(cmds, target)
                            /\ LayoutAt(cmds, p, target) = TargetDescriptor(target).imageLayout

OffscreenLayoutsAtSamplingWitness ==
    /\ commandBuffers[1].recorded
    /\ Cardinality(SamplingDraws(Commands(1), ColourTargets)) = 3

\* how many render passes of cmds render to target
PassesOn(cmds, target) ==
    Cardinality({ b \in 1 .. Len(cmds) :
                    IsBeginRenderPass(cmds[b]) /\ PassTarget(cmds[b]) = target })

\* C23: in every recorded command buffer each shadow depth layer 0..N-1, the
\* refraction colour target and the reflection colour target is the render
\* target of exactly one render pass.
TargetsRenderedOnce ==
    \A i \in Images :
        commandBuffers[i].recorded =>
            \A target \in ShadowLayers \cup ColourTargets :
                PassesOn(Commands(i), target) = 1

TargetsRenderedOnceWitness ==
    /\ commandBuffers[0].recorded
    /\ commandBuffers[1].recorded
    /\ commandBuffers[1].from.debugDisplayRefraction
    /\ PassesOn(Commands(1), RefractionTarget) = 1

\* ------------------------------------------------------------------------
\* The cascade matrices in the two uniform blocks (Spec)
\* ------------------------------------------------------------------------
\* C24: after every updateUniformBufferCSM, for every cascade i the matrix in
\* the depth-pass uniform block, the matrix in the CSM uniform block and
\* cascades[i].viewProjMatrix are equal, and the CSM split entry i equals
\* cascades[i].splitDepth.
CascadeBlocksAgree ==
    uniformBuffers.CSM.mapped =>
        \A k \in 1 .. SHADOW_MAP_CASCADE_COUNT :
            /\ uniformBuffers.depthPass.mapped
            /\ uniformBuffers.depthPass.data.cascadeViewProjMat[k] = cascades[k].viewProjMatrix
            /\ uniformBuffers.CSM.data.cascadeViewProjMat[k] = cascades[k].viewProjMatrix
            /\ uniformBuffers.CSM.data.cascadeSplits[k] = cascades[k].splitDepth

CascadeBlocksAgreeWitness ==
    /\ uniformBuffers.CSM.mapped
    /\ CascadesComputed
    /\ camera.view # 0
    /\ uniformBuffers.CSM.data.cascadeViewProjMat[1].invCam[3] = camera.view

\* ------------------------------------------------------------------------
\* When the command buffers are recorded again (SpecTerrain)
\* ------------------------------------------------------------------------
\* the four debug controls
DebugControls ==
    <<debugDisplayReflection, debugDisplayRefraction, cascadeDebug.enabled,
      cascadeDebug.cascadeIndex>>

\* this step of the prepared application called buildCommandBuffers: the
\* command buffers changed, or the mark of a submission since the last
\* recording was cleared
Rerecorded ==
    /\ prepared
    /\ \/ commandBuffers' # commandBuffers
       \/ submittedSinceRecord /\ ~submittedSinceRecord'

\* C25: once prepared, the command buffers are recorded again only by a step
\* that changes one of the four debug controls; a frame, a camera move, a
\* drag of the lambda slider and a drag of a terrain layer slider leave them
\* as they are.
RerecordedOnDebugChangeOnly ==
    [][Rerecorded => DebugControls' # DebugControls]_vars

\* C25 witness: after a frame was submitted, the lambda slider and a terrain
\* layer slider were dragged and the command buffers of the debug display
\* shown before are still the recorded ones
RerecordedOnDebugChangeOnlyWitness ==
    /\ prepared
    /\ submittedSinceRecord
    /\ cascadeSplitLambda # InitialLambda
    /\ uboTerrain.layers # ConstructorLayers
    /\ commandBuffers[0].from.debugDisplayReflection
    /\ debugDisplayReflection

\* ------------------------------------------------------------------------
\* The terrain layers and the terrain buffer (SpecTerrain)
\* ------------------------------------------------------------------------
\* the terrain buffer holds the layers the sliders left
TerrainLayersUploaded ==
    uniformBuffers.terrain.mapped /\ uniformBuffers.terrain.data.layers = uboTerrain.layers

\* C29: after a terrain-layer slider change the terrain uniform buffer comes
\* to hold the new layer values, also when the application is paused and the
\* camera is not moving: every frame of the prepared application leaves the
\* buffer holding the layers of uboTerrain.
TerrainLayersUploadedByFrame ==
    [][PreparedFrame => TerrainLayersUploaded']_vars

\* ------------------------------------------------------------------------
\* The loop counters of updateCascades (SpecLoop)
\* ------------------------------------------------------------------------
\* 0, 1, ..., n - 1
UpTo(n) == [k \in 1 .. n |-> k - 1]

\* C26: in updateCascades the inner corner loops do not change the counter
\* of the outer cascade loop; the outer loop reads cascadeSplits[i] and
\* writes cascades[i] once for each i = 0 .. SHADOW_MAP_CASCADE_COUNT - 1, in
\* that order, and terminates.
OuterLoopRunsEachCascade ==
    /\ [][harness.pc \in {"for", "body"} => harness'.outer = harness.outer]_vars
    /\ [](harness.pc = "done" =>
             /\ harness.reads = UpTo(SHADOW_MAP_CASCADE_COUNT)
             /\ harness.writes = UpTo(SHADOW_MAP_CASCADE_COUNT))
    /\ <>(harness.pc = "done")

\* C26 witness: in the last iteration the second corner loop has run its four
\* rounds and the outer counter still names the last cascade
OuterLoopRunsEachCascadeWitness ==
    /\ harness.pc = "body"
    /\ harness.fors = 2
    /\ harness.inner = 4
    /\ harness.outer = SHADOW_MAP_CASCADE_COUNT - 1
    /\ harness.writes = UpTo(SHADOW_MAP_CASCADE_COUNT - 1)

\* ------------------------------------------------------------------------
\* Viewport and scissor at the draws (SpecRecord)
\* ------------------------------------------------------------------------
\* width and height of the framebuffer named by target; t holds the swapchain
\* extent the framebuffers of the swapchain images have
FrameBufferExtent(target, t) ==
    CASE target[1] = "cascades.frameBuffer" ->
             <<CascadeFrameBuffer(target[2]).width, CascadeFrameBuffer(target[2]).height>>
      [] target[1] = "frameBuffers" -> <<t.width, t.height>>
      [] OTHER -> <<FB_DIM, FB_DIM>>

\* the numbers of the last command op before position p, <<>> if there is none
InEffect(cmds, p, op) ==
    LET b == LastBefore(cmds, p, op)
    IN  IF b = 0 THEN <<>> ELSE cmds[b].args

\* the framebuffer of the render pass open at position p
TargetAt(cmds, p) == PassTarget(cmds[LastBefore(cmds, p, "BeginRenderPass")])

\* where cmds draws
DrawPositions(cmds) == { p \in 1 .. Len(cmds) : IsDraw(cmds[p]) }

\* C27: at every draw of a recorded command buffer the viewport and the
\* scissor in effect are the dimensions of the framebuffer rendered to:
\* SHADOWMAP_DIM square in the cascade passes, FB_DIM square in the
\* refraction and reflection passes, the swapchain extent in the main pass.
ViewportMatchesFramebuffer ==
    \A i \in Images :
        commandBuffers[i].recorded =>
            LET cmds == Commands(i)
            IN  \A p \in DrawPositions(cmds) :
                    LET extent == FrameBufferExtent(TargetAt(cmds, p), commandBuffers[i].from)
                    IN  /\ InEffect(cmds, p, "SetViewport") = extent
                        /\ InEffect(cmds, p, "SetScissor") = extent

\* C27 witness: a recorded command buffer draws into the last cascade's
\* framebuffer, into the reflection framebuffer and into the swapchain's, and
\* the three have different dimensions
ViewportMatchesFramebufferWitness ==
    /\ commandBuffers[1].recorded
    /\ { FrameBufferExtent(TargetAt(Commands(1), p), commandBuffers[1].from) :
           p \in DrawPositions(Commands(1)) }
         = { <<SHADOWMAP_DIM, SHADOWMAP_DIM>>, <<FB_DIM, FB_DIM>>, <<width, height>> }
    /\ FB_DIM # SHADOWMAP_DIM /\ FB_DIM # width
    /\ \E p \in DrawPositions(Commands(1)) :
          TargetAt(Commands(1), p) = <<"cascades.frameBuffer", SHADOW_MAP_CASCADE_COUNT - 1>>

\* ------------------------------------------------------------------------
\* The depth format of the offscreen and shadow resources (SpecLifetime)
\* ------------------------------------------------------------------------
\* the objects whose create info holds the format written to variable format
\* by getSupportedDepthFormat, or an image or a view of that format
DepthFormatObjects(format) ==
    IF format = "fbDepthFormat"
    THEN { "offscreenPass.renderPass", "offscreenPass.depth.image",
           "offscreenPass.depth.view", "offscreenPass.refraction.frameBuffer",
           "offscreenPass.reflection.frameBuffer" }
    ELSE { "depthPass.renderPass", "depth.image", "depth.view" }
         \cup { CascadeName(i) \o ".view" : i \in CascadeIndices }
         \cup { CascadeName(i) \o ".frameBuffer" : i \in CascadeIndices }

\* C28: if getSupportedDepthFormat finds no supported depth format, neither
\* prepareOffscreen nor prepareCSM goes on to create a render pass, depth
\* image, view or framebuffer with the undetermined format.
NoUndeterminedDepthFormat ==
    \A c \in Range(gpu.failed) :
        c.fn = "getSupportedDepthFormat" =>
            Created \cap DepthFormatObjects(c.obj) = {}

====
